---- MODULE Spec2Model ----
(***************************************************************************)
(* A model of the fpvsetup library (src/src/lib.rs, src/src/aspect.rs)     *)
(* and of the unit arithmetic of its GUI (src/src/gui/util.rs).            *)
(*                                                                         *)
(* The program computes in f64.  The model computes in a binary floating-  *)
(* point format of the same shape with fewer bits: a finite value is an    *)
(* integer multiple k of 2^-FRAC_BITS with at most MANTISSA_DIGITS         *)
(* significant bits and |k| < 2^MAX_BITS; every operation rounds its exact *)
(* result to the nearest such value, ties to even, overflows to an         *)
(* infinity and underflows gradually to zero; NAN is not a number.  A      *)
(* value is held as the integer k, the infinities and NAN as integers      *)
(* outside the finite range.                                                *)
(***************************************************************************)
EXTENDS Integers, Sequences, FiniteSets, TLC

\* f64::MANTISSA_DIGITS is 53; the model keeps this many significant bits.
MANTISSA_DIGITS == 8
\* The smallest positive value is 2^-FRAC_BITS (f64: 2^-1074).
FRAC_BITS == 16
\* Finite magnitudes are below 2^(MAX_BITS - FRAC_BITS) (f64: 2^1024).
MAX_BITS == 28

INFINITY == 2 ^ MAX_BITS
NEG_INFINITY == 0 - INFINITY
NAN == INFINITY + 1

\* The value 1.0.
ONE == 2 ^ FRAC_BITS

is_nan(x) == x = NAN
is_infinite(x) == x = INFINITY \/ x = NEG_INFINITY
is_finite(x) == ~is_nan(x) /\ ~is_infinite(x)

AbsInt(n) == IF n < 0 THEN 0 - n ELSE n
MaxInt(a, b) == IF a < b THEN b ELSE a
MinInt(a, b) == IF a < b THEN a ELSE b

RECURSIVE BitLen(_)
\* The number of bits of the natural number n.
BitLen(n) == IF n = 0 THEN 0 ELSE 1 + BitLen(n \div 2)

RECURSIVE TrailingZeros(_)
\* The number of trailing zero bits of the positive integer n.
TrailingZeros(n) == IF n % 2 = 1 THEN 0 ELSE 1 + TrailingZeros(n \div 2)

\* The odd part of a positive k and its exponent: k = Mant(k) * 2^Expo(k).
Mant(k) == k \div (2 ^ TrailingZeros(k))
Expo(k) == TrailingZeros(k)

\* The exact magnitude (M + delta) * 2^sh, in units of 2^-FRAC_BITS, rounded
\* to the nearest value of the format, ties to even.  delta is 0 when
\* sticky is FALSE and lies strictly between 0 and 1 when it is TRUE; a
\* caller that sets sticky passes at least MANTISSA_DIGITS + 1 bits in M.
RoundMag(M, sh, sticky) ==
    LET L == BitLen(M)
        q == MaxInt(0, L + sh - MANTISSA_DIGITS)
        d == q - sh
    IN  IF M = 0 THEN 0
        ELSE IF L + sh > MAX_BITS THEN INFINITY
        ELSE IF d <= 0 THEN M * (2 ^ sh)
        ELSE IF d > L THEN 0
        ELSE LET r0 == M \div (2 ^ d)
                 rem == M % (2 ^ d)
                 half == 2 ^ (d - 1)
                 up == rem > half \/ (rem = half /\ (sticky \/ r0 % 2 = 1))
                 r == IF up THEN r0 + 1 ELSE r0
             IN  IF BitLen(r) + q > MAX_BITS THEN INFINITY ELSE r * (2 ^ q)

\* The sign of a value that is not NAN: -1, 0 or 1.
Sgn(x) == IF x < 0 THEN 0 - 1 ELSE IF x > 0 THEN 1 ELSE 0

\* f64 negation and absolute value.
Neg(x) == IF is_nan(x) THEN NAN ELSE 0 - x
Abs(x) == IF is_nan(x) THEN NAN ELSE AbsInt(x)

\* f64 addition.
Add(a, b) ==
    IF is_nan(a) \/ is_nan(b) THEN NAN
    ELSE IF is_infinite(a) /\ is_infinite(b) THEN (IF a = b THEN a ELSE NAN)
    ELSE IF is_infinite(a) THEN a
    ELSE IF is_infinite(b) THEN b
    ELSE LET s == a + b IN Sgn(s) * RoundMag(AbsInt(s), 0, FALSE)

\* f64 subtraction.
Sub(a, b) == Add(a, Neg(b))

\* f64 multiplication.
Mul(a, b) ==
    IF is_nan(a) \/ is_nan(b) THEN NAN
    ELSE IF a = 0 \/ b = 0
         THEN (IF is_infinite(a) \/ is_infinite(b) THEN NAN ELSE 0)
    ELSE IF is_infinite(a) \/ is_infinite(b) THEN Sgn(a) * Sgn(b) * INFINITY
    ELSE LET x == AbsInt(a)
             y == AbsInt(b)
         IN  Sgn(a) * Sgn(b)
               * RoundMag(Mant(x) * Mant(y), Expo(x) + Expo(y) - FRAC_BITS, FALSE)

\* The positive rational n / d * 2^sh, in units of 2^-FRAC_BITS, rounded.
RoundQuot(n, d, sh) ==
    LET t == MaxInt(0, MANTISSA_DIGITS + 3 + BitLen(d) - BitLen(n))
        N == n * (2 ^ t)
    IN  RoundMag(N \div d, sh - t, N % d # 0)

\* f64 division.
Div(a, b) ==
    IF is_nan(a) \/ is_nan(b) THEN NAN
    ELSE IF is_infinite(a) THEN (IF is_infinite(b) THEN NAN
                                 ELSE IF b < 0 THEN Neg(a) ELSE a)
    ELSE IF is_infinite(b) THEN 0
    ELSE IF b = 0 THEN (IF a = 0 THEN NAN ELSE Sgn(a) * INFINITY)
    ELSE IF a = 0 THEN 0
    ELSE LET x == AbsInt(a)
             y == AbsInt(b)
         IN  Sgn(a) * Sgn(b)
               * RoundQuot(Mant(x), Mant(y), Expo(x) - Expo(y) + FRAC_BITS)

\* The f64 nearest to the rational n / d, for a natural n and a positive d.
FromRat(n, d) == IF n = 0 THEN 0 ELSE RoundQuot(n, d, FRAC_BITS)

RECURSIVE ISqrt(_)
\* The integer square root of the natural number n, rounded down.
ISqrt(n) ==
    IF n < 2 THEN n
    ELSE LET s == 2 * ISqrt(n \div 4)
         IN  IF (s + 1) * (s + 1) <= n THEN s + 1 ELSE s

\* f64::sqrt, correctly rounded as IEEE 754 requires.
Sqrt(a) ==
    IF is_nan(a) \/ a < 0 THEN NAN
    ELSE IF a = INFINITY \/ a = 0 THEN a
    ELSE LET m == Mant(a)
             e == Expo(a) + FRAC_BITS
             j0 == MaxInt(0, 2 * MANTISSA_DIGITS + 4 - BitLen(m))
             j == IF (e - j0) % 2 = 0 THEN j0 ELSE j0 + 1
             N == m * (2 ^ j)
             s == ISqrt(N)
         IN  RoundMag(s, (e - j) \div 2, s * s # N)

\* Angles inside atan and tan are integers in units of 2^-ANGLE_BITS radians.
ANGLE_BITS == 30

\* atan(2^-i) for i = 0, 1, ..., in units of 2^-30 radians.
ATAN_TABLE ==
    << 843314857, 497837829, 263043837, 133525159,
       67021687, 33543516, 16775851, 8388437,
       4194283, 2097149, 1048576, 524288,
       262144, 131072, 65536, 32768,
       16384, 8192, 4096, 2048,
       1024, 512, 256, 128,
       64, 32, 16, 8 >>

\* pi / 2 in units of 2^-30 radians.
HALF_PI_ANGLE == 2 * ATAN_TABLE[1]

\* n / 2^i rounded down, for any integer n.
Shr(n, i) ==
    IF n >= 0 THEN n \div (2 ^ i)
    ELSE 0 - ((2 ^ i - 1 - n) \div (2 ^ i))

RECURSIVE AtanVector(_, _, _, _)
\* The angle of the vector (X, Y), X > 0, accumulated from step i on by
\* rotating the vector onto the horizontal axis.
AtanVector(X, Y, Z, i) ==
    IF i >= Len(ATAN_TABLE) \/ Y = 0 THEN Z
    ELSE IF Y > 0
         THEN AtanVector(X + Shr(Y, i), Y - Shr(X, i), Z + ATAN_TABLE[i + 1], i + 1)
         ELSE AtanVector(X - Shr(Y, i), Y + Shr(X, i), Z - ATAN_TABLE[i + 1], i + 1)

\* An angle in units of 2^-30 radians as an f64.
FromAngle(Z) == RoundMag(Z, FRAC_BITS - ANGLE_BITS, FALSE)

\* f64::atan: the f64 nearest to the arctangent, in radians.
Atan(a) ==
    IF is_nan(a) THEN NAN
    ELSE IF a = 0 THEN 0
    ELSE IF is_infinite(a) THEN Sgn(a) * FromAngle(HALF_PI_ANGLE)
    ELSE LET k == AbsInt(a)
             L == BitLen(k)
             s == 26 - L
             Y0 == IF L <= FRAC_BITS THEN k * (2 ^ (26 - FRAC_BITS))
                   ELSE IF s >= 0 THEN k * (2 ^ s) ELSE k \div (2 ^ (0 - s))
             X0 == IF L <= FRAC_BITS THEN 2 ^ 26 ELSE 2 ^ (FRAC_BITS + s)
         IN  Sgn(a) * FromAngle(AtanVector(X0, Y0, 0, 0))

RECURSIVE TanRotate(_, _, _, _)
\* The vector (X, Y) rotated by the angle z from step i on.
TanRotate(X, Y, z, i) ==
    IF i >= Len(ATAN_TABLE) THEN <<X, Y>>
    ELSE IF z >= 0
         THEN TanRotate(X - Shr(Y, i), Y + Shr(X, i), z - ATAN_TABLE[i + 1], i + 1)
         ELSE TanRotate(X + Shr(Y, i), Y - Shr(X, i), z + ATAN_TABLE[i + 1], i + 1)

\* f64::tan of an angle in radians, for the angles the program takes the
\* tangent of: |a| <= pi / 2 (half of a field of view).  Outside that range
\* the model does not say what the tangent is and yields NAN.
Tan(a) ==
    IF is_nan(a) \/ is_infinite(a) THEN NAN
    ELSE IF AbsInt(a) > FromAngle(HALF_PI_ANGLE) THEN NAN
    ELSE LET v == TanRotate(2 ^ 28, 0, AbsInt(a) * (2 ^ (ANGLE_BITS - FRAC_BITS)), 0)
             s == MaxInt(0, BitLen(v[1]) - 16)
         IN  IF v[2] <= 0 THEN 0
             ELSE Sgn(a) * RoundQuot(v[2], v[1] \div (2 ^ s), FRAC_BITS - s)

\* f64 comparison: every comparison with NAN is false.
Lt(a, b) == ~is_nan(a) /\ ~is_nan(b) /\ a < b
Le(a, b) == ~is_nan(a) /\ ~is_nan(b) /\ a <= b

(***************************************************************************)
(* src/src/lib.rs: MonitorDimensions and MonitorConfiguration.  A Length   *)
(* is its f64 number of meters, an Angle its f64 number of radians.        *)
(***************************************************************************)
TWO == 2 * ONE

\* MonitorDimensions::WidthAndHeight { width, height }
WidthAndHeight(width, height) ==
    [variant |-> "WidthAndHeight", width |-> width, height |-> height]

\* MonitorDimensions::DiagonalAndAspect { diagonal, aspect }
DiagonalAndAspect(diagonal, aspect) ==
    [variant |-> "DiagonalAndAspect", diagonal |-> diagonal, aspect |-> aspect]

\* MonitorConfiguration { dimensions, distance }
MonitorConfiguration(dimensions, distance) ==
    [dimensions |-> dimensions, distance |-> distance]

\* The derivation with `aspect + 1.0` in place of `aspect.powi(2) + 1.0`.
diagonal_and_aspect_to_width_and_height_unsquared(diagonal, aspect) ==
    LET height == Div(diagonal, Sqrt(Add(aspect, ONE)))
        width == Mul(height, aspect)
    IN  <<width, height>>

\* The derivation with the roles of width and height exchanged.
diagonal_and_aspect_to_width_and_height_exchanged(diagonal, aspect) ==
    LET width == Div(diagonal, Sqrt(Add(Mul(aspect, aspect), ONE)))
        height == Mul(width, aspect)
    IN  <<width, height>>

diagonal_and_aspect_to_width_and_height(diagonal, aspect) ==
    LET height == Div(diagonal, Sqrt(Add(Mul(aspect, aspect), ONE)))
        width == Mul(height, aspect)
    IN  <<width, height>>

\* width_and_height() returning the stored fields in the other order.
width_and_height_exchanged(self) ==
    IF self.variant = "WidthAndHeight"
    THEN <<self.height, self.width>>
    ELSE diagonal_and_aspect_to_width_and_height(self.diagonal, self.aspect)

width_and_height(self) ==
    IF self.variant = "WidthAndHeight"
    THEN <<self.width, self.height>>
    ELSE diagonal_and_aspect_to_width_and_height(self.diagonal, self.aspect)

aspect(self) ==
    IF self.variant = "WidthAndHeight"
    THEN Div(self.width, self.height)
    ELSE self.aspect

\* diagonal() without the square root.
diagonal_without_sqrt(self) ==
    IF self.variant = "WidthAndHeight"
    THEN Add(Mul(self.width, self.width), Mul(self.height, self.height))
    ELSE self.diagonal

diagonal(self) ==
    IF self.variant = "WidthAndHeight"
    THEN Sqrt(Add(Mul(self.width, self.width), Mul(self.height, self.height)))
    ELSE self.diagonal

as_width_and_height(self) ==
    LET wh == width_and_height(self) IN WidthAndHeight(wh[1], wh[2])

as_diagonal_and_aspect(self) ==
    DiagonalAndAspect(diagonal(self), aspect(self))

\* fov() with the whole width as the opposite side.
fov_without_halving(self) ==
    LET opposite == width_and_height(self.dimensions)[1]
        adjacent == self.distance
        half_angle == Atan(Div(opposite, adjacent))
    IN  Mul(half_angle, TWO)

\* fov() with the opposite and the adjacent side exchanged.
fov_exchanged(self) ==
    LET opposite == Div(width_and_height(self.dimensions)[1], TWO)
        adjacent == self.distance
        half_angle == Atan(Div(adjacent, opposite))
    IN  Mul(half_angle, TWO)

\* fov() with the tangent in place of the arctangent.
fov_with_tan(self) ==
    LET opposite == Div(width_and_height(self.dimensions)[1], TWO)
        adjacent == self.distance
        half_angle == Tan(Div(opposite, adjacent))
    IN  Mul(half_angle, TWO)

fov(self) ==
    LET opposite == Div(width_and_height(self.dimensions)[1], TWO)
        adjacent == self.distance
        half_angle == Atan(Div(opposite, adjacent))
    IN  Mul(half_angle, TWO)

\* monitor_fov_for_distance taking every distance as relative to the
\* monitor.
monitor_fov_for_distance_always_relative(self, distance, relative_to_monitor) ==
    Mul(Atan(Div(Mul(Tan(Div(fov(self), TWO)), Add(distance, self.distance)),
                 distance)),
        TWO)

\* monitor_fov_for_distance with the final division by distance_from_eye.
monitor_fov_for_distance_from_eye(self, distance, relative_to_monitor) ==
    LET distance_from_eye == IF relative_to_monitor THEN Add(distance, self.distance)
                             ELSE distance
        base_half_angle == Div(fov(self), TWO)
        half_width_over_distance == Tan(base_half_angle)
        half_width == Mul(half_width_over_distance, distance_from_eye)
        final_angle_tangent == Div(half_width, distance_from_eye)
        half_final_angle == Atan(final_angle_tangent)
    IN  Mul(half_final_angle, TWO)

\* half_final_angle * 2.0, where half_final_angle is the arc tangent of
\* final_angle_tangent = half_width / distance, half_width is
\* half_width_over_distance * distance_from_eye, half_width_over_distance
\* is the tangent of base_half_angle = fov() / 2.0, and distance_from_eye
\* is distance + self.distance when relative_to_monitor and distance
\* otherwise.
monitor_fov_for_distance(self, distance, relative_to_monitor) ==
    Mul(Atan(Div(Mul(Tan(Div(fov(self), TWO)),
                     IF relative_to_monitor THEN Add(distance, self.distance)
                     ELSE distance),
                 distance)),
        TWO)

\* Angle::get::<degree>(), as the panels display a field of view: the angle
\* in radians divided by the radians in one degree, pi / 180.
get_degree(angle) == Div(angle, FromAngle(HALF_PI_ANGLE \div 90))

(***************************************************************************)
(* src/src/aspect.rs: the catalog of common aspect ratios.                 *)
(***************************************************************************)
\* An integer literal `n as f64`.
AsF64(n) == n * ONE

\* One entry of generate_common_aspect_ratios!: (n / d, [n, d]).
RatioEntry(n, d) == <<Div(AsF64(n), AsF64(d)), <<AsF64(n), AsF64(d)>>>>

COMMON_ASPECT_RATIOS ==
    << RatioEntry(16, 9),
       RatioEntry(16, 10),
       RatioEntry(4, 3),
       RatioEntry(5, 4),
       RatioEntry(3, 2),
       RatioEntry(17, 9),
       RatioEntry(21, 9),
       RatioEntry(32, 9),
       RatioEntry(1, 1),
       RatioEntry(4, 1) >>

\* Option<T>: None is the empty sequence, Some(v) the sequence of v alone.
None == <<>>
Some(v) == <<v>>

RECURSIVE FilterNext(_, _, _)
\* .iter().filter(..).map(..).next() from entry i on: the pair of the first
\* entry the filter lets through.
FilterNext(ratio, rounding, i) ==
    IF i > Len(COMMON_ASPECT_RATIOS) THEN None
    ELSE IF Lt(Abs(Sub(ratio, COMMON_ASPECT_RATIOS[i][1])), rounding)
         THEN Some(COMMON_ASPECT_RATIOS[i][2])
         ELSE FilterNext(ratio, rounding, i + 1)

RECURSIVE FilterNextInclusive(_, _, _)
FilterNextInclusive(ratio, rounding, i) ==
    IF i > Len(COMMON_ASPECT_RATIOS) THEN None
    ELSE IF Le(Abs(Sub(ratio, COMMON_ASPECT_RATIOS[i][1])), rounding)
         THEN Some(COMMON_ASPECT_RATIOS[i][2])
         ELSE FilterNextInclusive(ratio, rounding, i + 1)

\* find_common_aspect_ratio with the comparison `<=` in place of `<`.
find_common_aspect_ratio_inclusive(ratio, rounding) ==
    FilterNextInclusive(ratio, rounding, 1)

find_common_aspect_ratio(ratio, rounding) == FilterNext(ratio, rounding, 1)

(***************************************************************************)
(* src/src/gui/util.rs: units of length.  Length::new::<unit>(v) is v      *)
(* times the unit's coefficient, the number of meters in one unit, and     *)
(* Length::get::<unit>() divides by it.                                    *)
(***************************************************************************)
\* A text is the sequence of its characters, each a string of one
\* character; a character outside ASCII is written as its code point.
DIGIT_CHARS == <<"0", "1", "2", "3", "4", "5", "6", "7", "8", "9">>

NAN_FTOA == <<"<", "e", "r", "r", "o", "r", ">">>
INFINITY_FTOA == <<"U+221E">>

RECURSIVE Decimal(_)
\* The decimal digits of a natural number.
Decimal(n) ==
    IF n < 10 THEN <<DIGIT_CHARS[n + 1]>>
    ELSE Decimal(n \div 10) \o <<DIGIT_CHARS[(n % 10) + 1]>>

\* format!("{:.3}", val) of a finite val: its exact value rounded to three
\* fraction digits, ties to even, with the sign of val.
format_3(val) ==
    LET m == AbsInt(val)
        whole == m \div ONE
        scaled == (m % ONE) * 1000
        q == scaled \div ONE
        r == scaled % ONE
        up == 2 * r > ONE \/ (2 * r = ONE /\ q % 2 = 1)
        t == IF up THEN q + 1 ELSE q
    IN  (IF val < 0 THEN <<"-">> ELSE <<>>)
          \o Decimal(whole + (t \div 1000))
          \o <<".">>
          \o << DIGIT_CHARS[((t % 1000) \div 100) + 1],
                DIGIT_CHARS[((t % 100) \div 10) + 1],
                DIGIT_CHARS[(t % 10) + 1] >>

RECURSIVE CharsToPop(_, _, _)
\* The loop of friendly_ftoa_base over formatted.chars().rev(), at the
\* character i with chars_to_pop so far.
CharsToPop(formatted, i, chars_to_pop) ==
    IF i = 0 THEN chars_to_pop
    ELSE IF formatted[i] = "0" THEN CharsToPop(formatted, i - 1, chars_to_pop + 1)
    ELSE IF formatted[i] = "." THEN chars_to_pop + 1
    ELSE chars_to_pop

RECURSIVE CharsToPopPastPoint(_, _, _)
\* The loop without the break at the decimal point.
CharsToPopPastPoint(formatted, i, chars_to_pop) ==
    IF i = 0 THEN chars_to_pop
    ELSE IF formatted[i] = "0" \/ formatted[i] = "."
         THEN CharsToPopPastPoint(formatted, i - 1, chars_to_pop + 1)
    ELSE chars_to_pop

\* friendly_ftoa_base popping zeros past the decimal point.
friendly_ftoa_base_past_point(val) ==
    LET formatted == format_3(val)
        chars_to_pop == CharsToPopPastPoint(formatted, Len(formatted), 0)
    IN  SubSeq(formatted, 1, Len(formatted) - chars_to_pop)

friendly_ftoa_base(val) ==
    LET formatted == format_3(val)
        chars_to_pop == CharsToPop(formatted, Len(formatted), 0)
    IN  SubSeq(formatted, 1, Len(formatted) - chars_to_pop)

\* friendly_ftoa without the sign of an infinity.
friendly_ftoa_unsigned(val) ==
    IF is_nan(val) THEN NAN_FTOA
    ELSE IF is_infinite(val) THEN INFINITY_FTOA
    ELSE friendly_ftoa_base(val)

friendly_ftoa(val) ==
    IF is_nan(val) THEN NAN_FTOA
    ELSE IF is_infinite(val)
         THEN LET sign == IF val < 0 THEN <<"-">> ELSE <<>>
              IN  sign \o INFINITY_FTOA
    ELSE friendly_ftoa_base(val)

Unit == {"Meters", "Centimeters", "Feet", "Inches"}

\* <unit as Conversion<f64>>::coefficient(), the closure u2f.
coefficient(unit) ==
    CASE unit = "Meters" -> ONE
      [] unit = "Centimeters" -> FromRat(1, 100)
      [] unit = "Feet" -> FromRat(3048, 10000)
      [] unit = "Inches" -> FromRat(254, 10000)

length_from_unit(val, unit) == Mul(val, coefficient(unit))

\* convert_units multiplying by the coefficient as length_from_unit does.
convert_units_multiplying(val, b) == Mul(val, coefficient(b))

convert_units(val, b) == Div(val, coefficient(b))

\* conversion_rate with the product in place of the quotient.
conversion_rate_product(a, b) == Mul(coefficient(b), coefficient(a))

\* conversion_rate with the quotient taken the other way round.
conversion_rate_inverted(a, b) == Div(coefficient(a), coefficient(b))

conversion_rate(a, b) == Div(coefficient(b), coefficient(a))

\* Result<Unit, ()>.
Ok(v) == [ok |-> TRUE, value |-> v]
Err == [ok |-> FALSE]

\* The i32 values.
I32_MAX == 2147483647
I32_MIN == (0 - I32_MAX) - 1

\* impl TryFrom<i32> for Unit with a default unit in the last arm.
try_from_defaulting(value) ==
    CASE value = 0 -> Ok("Meters")
      [] value = 1 -> Ok("Centimeters")
      [] value = 2 -> Ok("Feet")
      [] value = 3 -> Ok("Inches")
      [] OTHER -> Ok("Meters")

\* impl TryFrom<i32> for Unit.
try_from(value) ==
    CASE value = 0 -> Ok("Meters")
      [] value = 1 -> Ok("Centimeters")
      [] value = 2 -> Ok("Feet")
      [] value = 3 -> Ok("Inches")
      [] OTHER -> Err

\* impl From<Unit> for i32: `val as i32`, the discriminant of the variant.
from(val) ==
    CASE val = "Meters" -> 0
      [] val = "Centimeters" -> 1
      [] val = "Feet" -> 2
      [] val = "Inches" -> 3

RECURSIVE trim_start(_)
\* str::trim: the text without its leading and trailing white space.
trim_start(src) ==
    IF src # <<>> /\ src[1] = " " THEN trim_start(Tail(src)) ELSE src

RECURSIVE trim_end(_)
trim_end(src) ==
    IF src # <<>> /\ src[Len(src)] = " "
    THEN trim_end(SubSeq(src, 1, Len(src) - 1))
    ELSE src

trim(src) == trim_end(trim_start(src))

RECURSIVE DigitsValue(_)
\* The natural number a sequence of decimal digits denotes.
DigitsValue(ds) ==
    IF ds = <<>> THEN 0
    ELSE (10 * DigitsValue(SubSeq(ds, 1, Len(ds) - 1)))
           + ((CHOOSE d \in 1..10 : DIGIT_CHARS[d] = ds[Len(ds)]) - 1)

\* str::parse::<f64>() of a text without an exponent: an optional sign,
\* then digits with at most one decimal point among them and at least one
\* digit; any other text is an error.  The value is the f64 nearest to the
\* decimal number.
parse(src) ==
    LET signed == src # <<>> /\ src[1] \in {"-", "+"}
        body == IF signed THEN Tail(src) ELSE src
        points == { i \in 1..Len(body) : body[i] = "." }
        digits == { i \in 1..Len(body) : \E d \in 1..10 : DIGIT_CHARS[d] = body[i] }
        point == IF points = {} THEN Len(body) + 1 ELSE CHOOSE i \in points : TRUE
        whole == SubSeq(body, 1, point - 1)
        fraction == SubSeq(body, point + 1, Len(body))
        magnitude == FromRat((DigitsValue(whole) * (10 ^ Len(fraction)))
                               + DigitsValue(fraction),
                             10 ^ Len(fraction))
    IN  IF /\ Cardinality(points) <= 1
           /\ digits # {}
           /\ digits \cup points = 1..Len(body)
        THEN Ok(IF src[1] = "-" THEN Neg(magnitude) ELSE magnitude)
        ELSE Err

\* `Some(src.parse().unwrap())`: the panic of unwrap on an error.
unwrap(parsed) ==
    IF parsed.ok THEN [panicked |-> FALSE, value |-> Some(parsed.value)]
    ELSE [panicked |-> TRUE, value |-> None]

\* float_from_restricted_string from `src.is_empty()` on, src trimmed.
from_trimmed(src) ==
    IF src = <<>> THEN [panicked |-> FALSE, value |-> None]
    ELSE unwrap(parse(src))

\* float_from_restricted_string: whether it panics in `unwrap`, and the
\* Option<f64> it returns when it does not.
float_from_restricted_string(src) == from_trimmed(trim(src))

(***************************************************************************)
(* src/src/gui/main.rs: build_unit_selector.                               *)
(***************************************************************************)
\* enum Number.
Number == {"Singular", "Plural"}

\* The four add_entry calls of build_unit_selector, in the order they are
\* made: the singular and the plural label of each.  add_entry gives the
\* entries the indices 0, 1, 2, 3 of its counter in that order.
ADD_ENTRY_CALLS ==
    << <<"meter", "meters">>,
       <<"centimeter", "centimeters">>,
       <<"foot", "feet">>,
       <<"inch", "inches">> >>

\* The menu of a unit selector: entry i + 1 of the sequence has index i.
selector_entries(number) ==
    [ i \in 1..Len(ADD_ENTRY_CALLS) |->
        [ index |-> i - 1,
          label |-> IF number = "Singular" THEN ADD_ENTRY_CALLS[i][1]
                    ELSE ADD_ENTRY_CALLS[i][2] ] ]

(***************************************************************************)
(* The window.  A Ui is the text of every FloatInput, the entry every      *)
(* Choice shows, and the index each Choice's callbacks remember in prev_rc. *)
(* `trace` lists the handlers that have been entered, in order, and        *)
(* `panicked` tells that a callback panicked, which aborts the process.     *)
(* The handlers reach the Ui through whole_ui, an Rc<RefCell<Option<Ui>>>:  *)
(* `some` tells that the cell holds Some(ui), `borrowed` that a RefMut of   *)
(* it is alive, `borrows` counts the calls of borrow_mut, and `error`       *)
(* names the panic.                                                         *)
(***************************************************************************)
DEGREE_SIGN == <<"U+00B0">>

\* The FloatInputs of MonitorProperties, UnitSetup, PortalLike and Focused.
FloatInputs ==
    { "width_input", "height_input", "diagonal_input", "aspect_n_input",
      "aspect_d_input", "distance_input", "app_per_real_input",
      "real_per_app_input", "portal_like.fov_output", "move_output",
      "move_units_output", "accurate_distance_input", "focused.fov_output" }

\* The arguments of every build_unit_selector call: the input field the
\* selector converts, its default unit, and `invert`.
UNIT_SELECTORS ==
    [ width_unit_selector |->
        [input_field |-> "width_input", default |-> "Centimeters", invert |-> FALSE],
      height_unit_selector |->
        [input_field |-> "height_input", default |-> "Centimeters", invert |-> FALSE],
      diagonal_unit_selector |->
        [input_field |-> "diagonal_input", default |-> "Inches", invert |-> FALSE],
      distance_unit_selector |->
        [input_field |-> "distance_input", default |-> "Centimeters", invert |-> FALSE],
      app_per_real_unit_selector |->
        [input_field |-> "app_per_real_input", default |-> "Meters", invert |-> TRUE],
      real_per_app_unit_selector |->
        [input_field |-> "real_per_app_input", default |-> "Meters", invert |-> FALSE],
      move_unit_selector |->
        [input_field |-> "move_output", default |-> "Meters", invert |-> FALSE],
      accurate_distance_unit_selector |->
        [input_field |-> "accurate_distance_input", default |-> "Meters", invert |-> FALSE] ]

Choices == DOMAIN UNIT_SELECTORS

\* The RefCell<Option<Ui>> before Ui::new has filled it.
NoUi ==
    [ built |-> FALSE,
      value |-> [ f \in FloatInputs |-> <<>> ],
      choice |-> [ c \in Choices |-> 0 ],
      prev_rc |-> [ c \in Choices |-> 0 ],
      trace |-> <<>>,
      panicked |-> FALSE,
      some |-> FALSE,
      borrowed |-> FALSE,
      borrows |-> 0,
      error |-> "" ]

\* The entry of a handler; nothing runs after a panic.
Entered(ui, handler) ==
    IF ui.panicked THEN ui ELSE [ui EXCEPT !.trace = Append(@, handler)]

\* A panic with its message.
panic(u, error) == [u EXCEPT !.panicked = TRUE, !.error = error]

\* RefCell::borrow_mut: a panic when a borrow is alive.
borrow_mut(u) ==
    IF u.panicked THEN u
    ELSE IF u.borrowed
         THEN panic([u EXCEPT !.borrows = @ + 1], "BorrowMutError")
    ELSE [u EXCEPT !.borrowed = TRUE, !.borrows = @ + 1]

\* `.as_mut().unwrap()` on the Option<Ui> of the cell.
as_mut_unwrap(u) ==
    IF u.panicked THEN u
    ELSE IF ~u.some THEN panic(u, "unwrap on None")
    ELSE u

\* The RefMut goes: `drop(_p)`, or the end of its scope.
drop(u) == IF u.panicked THEN u ELSE [u EXCEPT !.borrowed = FALSE]

\* `let mut _p = ui.borrow_mut(); .. _p.as_mut().unwrap()` at the entry of
\* a handler.
borrowed_by(ui, handler) == as_mut_unwrap(borrow_mut(Entered(ui, handler)))

\* selector.value().try_into().unwrap()
unit_of(ui, selector) == try_from(ui.choice[selector]).value

\* PortalLike::update from `pl.fov_output.set_value` on.
PortalLike_set_value(u, mov, fov_angle, app_per_real) ==
    drop([u EXCEPT !.value["portal_like.fov_output"] =
                       friendly_ftoa(get_degree(fov_angle)) \o DEGREE_SIGN,
                   !.value["move_output"] = friendly_ftoa(mov),
                   !.value["move_units_output"] =
                       friendly_ftoa(Mul(mov, app_per_real))])

\* PortalLike::update from `let mov` on: width, height and distance are
\* Lengths.
PortalLike_lengths(u, width, height, distance, app_per_real) ==
    PortalLike_set_value(
        u,
        convert_units(distance, unit_of(u, "move_unit_selector")),
        fov(MonitorConfiguration(WidthAndHeight(width, height), distance)),
        app_per_real)

\* PortalLike::update from `if let` on: the four parse results.
PortalLike_parsed(u, width, height, distance, app_per_real) ==
    IF u.panicked THEN u
    ELSE IF width.ok /\ height.ok /\ distance.ok /\ app_per_real.ok
    THEN PortalLike_lengths(
             u,
             length_from_unit(width.value, unit_of(u, "width_unit_selector")),
             length_from_unit(height.value, unit_of(u, "height_unit_selector")),
             length_from_unit(distance.value, unit_of(u, "distance_unit_selector")),
             app_per_real.value)
    ELSE drop(u)

\* PortalLike::update
PortalLike_update(ui) ==
    PortalLike_parsed(borrowed_by(ui, "PortalLike::update"),
                      parse(ui.value["width_input"]),
                      parse(ui.value["width_input"]),
                      parse(ui.value["distance_input"]),
                      parse(ui.value["app_per_real_input"]))

\* Focused::update from `let monitor_conf` on, the accurate distance taken
\* from the eye: relative_to_monitor false.
Focused_lengths_from_eye(u, width, height, distance, accurate_distance) ==
    drop([u EXCEPT !.value["focused.fov_output"] =
                       friendly_ftoa(get_degree(
                           monitor_fov_for_distance(
                               MonitorConfiguration(WidthAndHeight(width, height),
                                                    distance),
                               accurate_distance, FALSE)))
                         \o DEGREE_SIGN])

\* Focused::update from `let monitor_conf` on: the four Lengths.
Focused_lengths(u, width, height, distance, accurate_distance) ==
    drop([u EXCEPT !.value["focused.fov_output"] =
                       friendly_ftoa(get_degree(
                           monitor_fov_for_distance(
                               MonitorConfiguration(WidthAndHeight(width, height),
                                                    distance),
                               accurate_distance, TRUE)))
                         \o DEGREE_SIGN])

\* Focused::update from `if let` on: the four parse results.
Focused_parsed(u, width, height, distance, accurate_distance) ==
    IF u.panicked THEN u
    ELSE IF width.ok /\ height.ok /\ distance.ok /\ accurate_distance.ok
    THEN Focused_lengths(
             u,
             length_from_unit(width.value, unit_of(u, "width_unit_selector")),
             length_from_unit(height.value, unit_of(u, "height_unit_selector")),
             length_from_unit(distance.value, unit_of(u, "distance_unit_selector")),
             length_from_unit(accurate_distance.value,
                              unit_of(u, "accurate_distance_unit_selector")))
    ELSE drop(u)

\* Focused::update
Focused_update(ui) ==
    Focused_parsed(borrowed_by(ui, "Focused::update"),
                   parse(ui.value["width_input"]),
                   parse(ui.value["height_input"]),
                   parse(ui.value["distance_input"]),
                   parse(ui.value["accurate_distance_input"]))

\* OutputTabs::update
OutputTabs_update(ui) ==
    Focused_update(PortalLike_update(Entered(ui, "OutputTabs::update")))

\* `find_common_aspect_ratio(aspect, 0.1).unwrap_or([aspect, 1.0])`
unwrap_or(found, default) == IF found = None THEN default ELSE found[1]

\* width_or_height_change_handler from `p.diagonal_input.set_value` on,
\* without `drop(_p)`: the RefMut lives to the end of the handler.
width_or_height_set_value_without_drop(p, diag, nd) ==
    drop(OutputTabs_update(
             [p EXCEPT !.value["diagonal_input"] = friendly_ftoa(diag),
                       !.value["aspect_n_input"] = friendly_ftoa(nd[1]),
                       !.value["aspect_d_input"] = friendly_ftoa(nd[2])]))

\* width_or_height_change_handler from `p.diagonal_input.set_value` on.
width_or_height_set_value(p, diag, nd) ==
    OutputTabs_update(
        drop([p EXCEPT !.value["diagonal_input"] = friendly_ftoa(diag),
                       !.value["aspect_n_input"] = friendly_ftoa(nd[1]),
                       !.value["aspect_d_input"] = friendly_ftoa(nd[2])]))

\* width_or_height_change_handler from `let aspect` on, its diagonal left
\* in meters.
width_or_height_aspect_in_meters(p, diag, asp) ==
    width_or_height_set_value(
        p, diag,
        unwrap_or(find_common_aspect_ratio(asp, FromRat(1, 10)), <<asp, ONE>>))

\* width_or_height_change_handler from `let aspect` on.
width_or_height_aspect(p, diag, asp) ==
    width_or_height_set_value(
        p,
        convert_units(diag, unit_of(p, "diagonal_unit_selector")),
        unwrap_or(find_common_aspect_ratio(asp, FromRat(1, 10)), <<asp, ONE>>))

\* width_or_height_change_handler from `let diagonal` on.
width_or_height_dimensions(p, dims) ==
    width_or_height_aspect(p, diagonal(dims), aspect(dims))

\* width_or_height_change_handler from `if let` on: the two parse results.
width_or_height_parsed(p, width, height) ==
    IF p.panicked THEN p
    ELSE IF width.ok /\ height.ok
    THEN width_or_height_dimensions(
             p,
             WidthAndHeight(
                 length_from_unit(width.value, unit_of(p, "width_unit_selector")),
                 length_from_unit(height.value, unit_of(p, "height_unit_selector"))))
    ELSE drop(p)

\* MonitorProperties::width_or_height_change_handler
width_or_height_change_handler(ui) ==
    width_or_height_parsed(borrowed_by(ui, "width_or_height_change_handler"),
                           parse(ui.value["width_input"]),
                           parse(ui.value["height_input"]))

\* diagonal_or_aspect_change_handler from `let width = convert_units` on,
\* the height converted to the unit of the width selector.
diagonal_or_aspect_width_and_height_in_one_unit(p, wh) ==
    OutputTabs_update(
        drop([p EXCEPT !.value["width_input"] =
                           friendly_ftoa(convert_units(
                               wh[1], unit_of(p, "width_unit_selector"))),
                       !.value["height_input"] =
                           friendly_ftoa(convert_units(
                               wh[2], unit_of(p, "width_unit_selector")))]))

\* diagonal_or_aspect_change_handler from `let width = convert_units` on.
diagonal_or_aspect_width_and_height(p, wh) ==
    OutputTabs_update(
        drop([p EXCEPT !.value["width_input"] =
                           friendly_ftoa(convert_units(
                               wh[1], unit_of(p, "width_unit_selector"))),
                       !.value["height_input"] =
                           friendly_ftoa(convert_units(
                               wh[2], unit_of(p, "height_unit_selector")))]))

\* diagonal_or_aspect_change_handler from `if let` on: the three parse
\* results.
diagonal_or_aspect_parsed(p, diag, aspect_n, aspect_d) ==
    IF p.panicked THEN p
    ELSE IF diag.ok /\ aspect_n.ok /\ aspect_d.ok
    THEN diagonal_or_aspect_width_and_height(
             p,
             width_and_height(
                 DiagonalAndAspect(
                     length_from_unit(diag.value, unit_of(p, "diagonal_unit_selector")),
                     Div(aspect_n.value, aspect_d.value))))
    ELSE drop(p)

\* MonitorProperties::diagonal_or_aspect_change_handler
diagonal_or_aspect_change_handler(ui) ==
    diagonal_or_aspect_parsed(borrowed_by(ui, "diagonal_or_aspect_change_handler"),
                              parse(ui.value["diagonal_input"]),
                              parse(ui.value["aspect_n_input"]),
                              parse(ui.value["aspect_d_input"]))

\* app_per_real_change_handler from `if let` on: the parse result.
app_per_real_parsed(p, parsed) ==
    IF p.panicked THEN p
    ELSE IF parsed.ok
    THEN OutputTabs_update(
             drop([p EXCEPT !.value["real_per_app_input"] =
                      friendly_ftoa(
                          Div(ONE,
                              convert_units(
                                  length_from_unit(
                                      parsed.value,
                                      unit_of(p, "app_per_real_unit_selector")),
                                  unit_of(p, "real_per_app_unit_selector"))))]))
    ELSE drop(p)

\* UnitSetup::app_per_real_change_handler
app_per_real_change_handler(ui) ==
    app_per_real_parsed(borrowed_by(ui, "app_per_real_change_handler"),
                        parse(ui.value["app_per_real_input"]))

\* real_per_app_change_handler from `if let` on: the parse result.
real_per_app_parsed(p, parsed) ==
    IF p.panicked THEN p
    ELSE IF parsed.ok
    THEN OutputTabs_update(
             drop([p EXCEPT !.value["app_per_real_input"] =
                      friendly_ftoa(
                          Div(ONE,
                              convert_units(
                                  length_from_unit(
                                      parsed.value,
                                      unit_of(p, "real_per_app_unit_selector")),
                                  unit_of(p, "app_per_real_unit_selector"))))]))
    ELSE drop(p)

\* UnitSetup::real_per_app_change_handler
real_per_app_change_handler(ui) ==
    real_per_app_parsed(borrowed_by(ui, "real_per_app_change_handler"),
                        parse(ui.value["real_per_app_input"]))

\* The callback of a selector entry from `let prev` on: old_val is the
\* number of the input, prev and new the units, and the multiplier.
unit_selector_mul(invert, prev, new) ==
    IF ~invert THEN conversion_rate(prev, new) ELSE conversion_rate(new, prev)

\* The callback of a selector entry from `if let Some(old_val)` on.
unit_selector_old_val(u, selector, index, old_val) ==
    IF old_val.panicked THEN panic(u, "unwrap on Err")
    ELSE IF old_val.value # None
         THEN [u EXCEPT
                 !.value[UNIT_SELECTORS[selector].input_field] =
                     friendly_ftoa(
                         Mul(old_val.value[1],
                             unit_selector_mul(UNIT_SELECTORS[selector].invert,
                                               try_from(u.prev_rc[selector]).value,
                                               try_from(index).value))),
                 !.prev_rc[selector] = index]
    ELSE [u EXCEPT !.prev_rc[selector] = index]

\* The callback build_unit_selector gives the entry `index` of a selector;
\* the Choice shows the entry by the time the callback runs.
unit_selector_callback(ui, selector, index) ==
    unit_selector_old_val(
        Entered([ui EXCEPT !.choice[selector] = index], selector),
        selector, index,
        float_from_restricted_string(ui.value[UNIT_SELECTORS[selector].input_field]))

\* The callback of a FloatInput, triggered when the user changes its text.
\* The read-only outputs aside, every input of the window has one.
input_callback(ui, input) ==
    CASE input \in {"width_input", "height_input"} ->
             width_or_height_change_handler(ui)
      [] input \in {"diagonal_input", "aspect_n_input", "aspect_d_input"} ->
             diagonal_or_aspect_change_handler(ui)
      [] input = "distance_input" -> OutputTabs_update(ui)
      [] input = "app_per_real_input" -> app_per_real_change_handler(ui)
      [] input = "real_per_app_input" -> real_per_app_change_handler(ui)
      [] input = "accurate_distance_input" -> Focused_update(ui)

\* The inputs the user can type in.
EditableInputs ==
    FloatInputs \ {"portal_like.fov_output", "move_output", "move_units_output",
                   "focused.fov_output"}

\* find_any_monitor_dimensions on Windows when an EDID gives a maximum
\* image size of width x height centimeters.
edid_dimensions(width, height) ==
    Ok(WidthAndHeight(length_from_unit(width * ONE, "Centimeters"),
                      length_from_unit(height * ONE, "Centimeters")))

\* The Ui that Ui::new builds around the texts of its inputs: every
\* selector shows its default and every prev_rc is 0.
built(value) ==
    [ built |-> TRUE,
      value |-> value,
      choice |-> [ c \in Choices |-> from(UNIT_SELECTORS[c].default) ],
      prev_rc |-> [ c \in Choices |-> 0 ],
      trace |-> <<>>,
      panicked |-> FALSE,
      some |-> FALSE,
      borrowed |-> FALSE,
      borrows |-> 0,
      error |-> "" ]

\* `*whole_ui.borrow_mut() = Some(built.clone())`
stored(u) == drop([borrow_mut(u) EXCEPT !.some = TRUE])

\* MonitorProperties::new: the width and height inputs seeded with the
\* width and the height in centimeters.
seeded(wh) ==
    [NoUi.value EXCEPT
       !["width_input"] = friendly_ftoa(convert_units(wh[1], "Centimeters")),
       !["height_input"] = friendly_ftoa(convert_units(wh[2], "Centimeters"))]

\* Ui::new running width_or_height_change_handler whatever the probe gave.
Ui_new_always_handling(monitor_dimensions) ==
    IF monitor_dimensions # None
    THEN width_or_height_change_handler(
             stored(built(seeded(width_and_height(monitor_dimensions[1])))))
    ELSE width_or_height_change_handler(stored(built(NoUi.value)))

\* Ui::new(monitor_dimensions), with MonitorProperties::new, UnitSetup::new
\* and OutputTabs::new: the handler runs when there are dimensions.
Ui_new(monitor_dimensions) ==
    IF monitor_dimensions # None
    THEN width_or_height_change_handler(
             stored(built(seeded(width_and_height(monitor_dimensions[1])))))
    ELSE stored(built(NoUi.value))

\* .ok() of an io::Result.
ok(result) == IF result.ok THEN Some(result.value) ELSE None

(***************************************************************************)
(* The callers of the library: a MonitorDimensions value is constructed,   *)
(* re-represented and queried, and a MonitorConfiguration is built around  *)
(* it for every field-of-view calculation.  Every function is pure, so a    *)
(* behaviour makes one call on the value it has built: a second call       *)
(* could only return what a first call on the same value returns.          *)
(***************************************************************************)
VARIABLES
    original,      \* the MonitorDimensions as it was constructed
    dimensions,    \* the current MonitorDimensions value
    path,          \* the re-representations applied to original, in order
    call,          \* the last library call and its arguments
    ret,           \* what that call returned: a tuple, <<x>> for one f64
    ui             \* the window of the GUI

vars == <<original, dimensions, path, call, ret, ui>>

\* The longest chain of re-representations the model follows.
MAX_PATH == 2

\* Widths and heights in meters: monitor-sized ones, and ones small and
\* large enough for their squares to leave the range in which the format
\* is exact to MANTISSA_DIGITS bits.
LengthInputs ==
    { FromRat(n[1], n[2]) :
        n \in { <<3, 10>>, <<1, 2>>, <<6, 5>>, <<3, 160>>, <<96, 5>>, <<1536, 5>> } }

\* Diagonals in meters; 0.6858 m is 27 inches.
DiagonalInputs ==
    { FromRat(n[1], n[2]) :
        n \in { <<6858, 10000>>, <<1, 2>>, <<3, 160>>, <<1536, 5>> } }

\* Aspect ratios, width / height.
AspectInputs ==
    { FromRat(n[1], n[2]) : n \in { <<16, 9>>, <<4, 3>>, <<1, 1>>, <<21, 9>>, <<1, 100>>, <<100, 1>> } }

\* Viewing distances in meters; 0.6096 m is 24 inches.
DistanceInputs ==
    { FromRat(n[1], n[2]) :
        n \in { <<1, 2>>, <<6096, 10000>>, <<1, 1>>, <<1, 4096>>, <<2048, 1>> } }

\* Reference distances in meters for monitor_fov_for_distance.
ReferenceInputs ==
    { FromRat(n[1], n[2]) : n \in { <<1, 2>>, <<2, 1>>, <<1, 65536>> } }

DimensionsInputs ==
    { WidthAndHeight(w, h) : w \in LengthInputs, h \in LengthInputs }
    \cup { DiagonalAndAspect(d, a) : d \in DiagonalInputs, a \in AspectInputs }

NoCall == [op |-> "none"]

Init ==
    /\ original \in DimensionsInputs
    /\ dimensions = original
    /\ path = <<>>
    /\ call = NoCall
    /\ ret = <<>>
    /\ ui = NoUi

AsWidthAndHeight ==
    /\ call = NoCall
    /\ Len(path) < MAX_PATH
    /\ dimensions' = as_width_and_height(dimensions)
    /\ path' = Append(path, "as_width_and_height")
    /\ call' = NoCall
    /\ ret' = <<>>
    /\ UNCHANGED <<original, ui>>

AsDiagonalAndAspect ==
    /\ call = NoCall
    /\ Len(path) < MAX_PATH
    /\ dimensions' = as_diagonal_and_aspect(dimensions)
    /\ path' = Append(path, "as_diagonal_and_aspect")
    /\ call' = NoCall
    /\ ret' = <<>>
    /\ UNCHANGED <<original, ui>>

CallWidthAndHeight ==
    /\ call = NoCall
    /\ call' = [op |-> "width_and_height"]
    /\ ret' = width_and_height(dimensions)
    /\ UNCHANGED <<original, dimensions, path, ui>>

CallAspect ==
    /\ call = NoCall
    /\ call' = [op |-> "aspect"]
    /\ ret' = <<aspect(dimensions)>>
    /\ UNCHANGED <<original, dimensions, path, ui>>

CallDiagonal ==
    /\ call = NoCall
    /\ call' = [op |-> "diagonal"]
    /\ ret' = <<diagonal(dimensions)>>
    /\ UNCHANGED <<original, dimensions, path, ui>>

CallFov ==
    \E d \in DistanceInputs :
        /\ call = NoCall
        /\ call' = [op |-> "fov", self |-> MonitorConfiguration(dimensions, d)]
        /\ ret' = <<fov(MonitorConfiguration(dimensions, d))>>
        /\ UNCHANGED <<original, dimensions, path, ui>>

CallMonitorFovForDistance ==
    \E d \in DistanceInputs, distance \in ReferenceInputs, relative_to_monitor \in BOOLEAN :
        /\ call = NoCall
        /\ call' = [op |-> "monitor_fov_for_distance",
                    self |-> MonitorConfiguration(dimensions, d),
                    distance |-> distance,
                    relative_to_monitor |-> relative_to_monitor]
        /\ ret' = <<monitor_fov_for_distance(MonitorConfiguration(dimensions, d),
                                            distance, relative_to_monitor)>>
        /\ UNCHANGED <<original, dimensions, path, ui>>

Next ==
    \/ AsWidthAndHeight
    \/ AsDiagonalAndAspect
    \/ CallWidthAndHeight
    \/ CallAspect
    \/ CallDiagonal
    \/ CallFov
    \/ CallMonitorFovForDistance

Spec == Init /\ [][Next]_vars

(***************************************************************************)
(* The callers of find_common_aspect_ratio.                                *)
(***************************************************************************)
\* The ratios queried are the multiples of 1/20 up to MAX_RATIO_STEPS / 20.
MAX_RATIO_STEPS == 90

RatioInputs ==
    { FromRat(n, 20) : n \in 1..MAX_RATIO_STEPS }
    \cup { FromRat(160009, 90000), FromRat(12345, 10000) }
    \cup { COMMON_ASPECT_RATIOS[i][1] : i \in 1..Len(COMMON_ASPECT_RATIOS) }

RoundingInputs ==
    { FromRat(n[1], n[2]) : n \in { <<1, 10>>, <<1, 10000>>, <<1, 5>>, <<1, 2>>, <<1, 1>> } }

\* No MonitorDimensions value takes part in these calls.
NoDimensions == WidthAndHeight(ONE, ONE)

InitCalls ==
    /\ original = NoDimensions
    /\ dimensions = NoDimensions
    /\ path = <<>>
    /\ call = NoCall
    /\ ret = <<>>
    /\ ui = NoUi

CallFindCommonAspectRatio ==
    \E ratio \in RatioInputs, rounding \in RoundingInputs :
        /\ call = NoCall
        /\ call' = [op |-> "find_common_aspect_ratio",
                    ratio |-> ratio, rounding |-> rounding]
        /\ ret' = find_common_aspect_ratio(ratio, rounding)
        /\ UNCHANGED <<original, dimensions, path, ui>>

NextAspect == CallFindCommonAspectRatio

SpecAspect == InitCalls /\ [][NextAspect]_vars

(***************************************************************************)
(* The callers of the unit functions: a number is made a Length in one     *)
(* unit and read back in another, or a conversion rate is asked for.       *)
(***************************************************************************)
\* The numbers converted are the multiples of 1/4 up to MAX_VALUE_STEPS / 4,
\* zero, a negative number, and numbers at both ends of the finite range:
\* one whose Length in the smaller units underflows, and a large one.
MAX_VALUE_STEPS == 12

ValueInputs ==
    { FromRat(n, 4) : n \in 1..MAX_VALUE_STEPS }
    \cup { 0, Neg(FromRat(5, 2)), FromRat(1, 8192), FromRat(2047, 1) }

CallLengthFromUnit ==
    \E val \in ValueInputs, unit \in Unit :
        /\ call = NoCall
        /\ call' = [op |-> "length_from_unit", val |-> val, unit |-> unit]
        /\ ret' = <<length_from_unit(val, unit)>>
        /\ UNCHANGED <<original, dimensions, path, ui>>

\* The Length returned by length_from_unit is read back in unit b.
CallConvertUnits ==
    \E b \in Unit :
        /\ call.op = "length_from_unit"
        /\ call' = [op |-> "convert_units", val |-> ret[1], b |-> b,
                    from |-> [val |-> call.val, unit |-> call.unit]]
        /\ ret' = <<convert_units(ret[1], b)>>
        /\ UNCHANGED <<original, dimensions, path, ui>>

CallConversionRate ==
    \E a \in Unit, b \in Unit :
        /\ call = NoCall
        /\ call' = [op |-> "conversion_rate", a |-> a, b |-> b]
        /\ ret' = <<conversion_rate(a, b)>>
        /\ UNCHANGED <<original, dimensions, path, ui>>

NextUnits ==
    \/ CallLengthFromUnit
    \/ CallConvertUnits
    \/ CallConversionRate

SpecUnits == InitCalls /\ [][NextUnits]_vars

(***************************************************************************)
(* The callers of Unit::try_from: the value of a selector, an i32, is made *)
(* a Unit.                                                                 *)
(***************************************************************************)
\* The tags tried are -MAX_TAG..MAX_TAG and the two ends of i32.
MAX_TAG == 60

TagInputs == ((0 - MAX_TAG)..MAX_TAG) \cup {I32_MIN, I32_MAX}

CallTryFrom ==
    \E value \in TagInputs :
        /\ call = NoCall
        /\ call' = [op |-> "try_from", value |-> value]
        /\ ret' = <<try_from(value)>>
        /\ UNCHANGED <<original, dimensions, path, ui>>

NextTags == CallTryFrom

SpecTags == InitCalls /\ [][NextTags]_vars

(***************************************************************************)
(* The callers of friendly_ftoa: a computed value is made the text of a    *)
(* field.                                                                  *)
(***************************************************************************)
\* The multiple of 2^-FRAC_BITS nearest to n / d.  An f64 resolves far more
\* than the three decimals displayed, which the MANTISSA_DIGITS bits of the
\* model do not; the values formatted are therefore taken at the full
\* resolution of 2^-FRAC_BITS.
Nearest(n, d) == ((n \div d) * ONE) + (((2 * (n % d) * ONE) + d) \div (2 * d))

\* The values formatted: the thousandths up to MAX_THOUSANDTHS / 1000 and
\* the sixteenths up to MAX_SIXTEENTHS / 16 (every other of which is a tie
\* of the rounding to three digits), both with either sign; whole numbers;
\* 3.14; the smallest and largest finite values; and the non-finite values.
MAX_THOUSANDTHS == 40
MAX_SIXTEENTHS == 24

FormatMagnitudes ==
    { Nearest(n, 1000) : n \in 0..MAX_THOUSANDTHS }
    \cup { Nearest(n, 16) : n \in 0..MAX_SIXTEENTHS }
    \cup { 5 * ONE, 100 * ONE, 1000 * ONE, Nearest(314, 100), Nearest(3999, 4000),
           Nearest(19999, 1000), 1, INFINITY - 1 }

FormatInputs ==
    FormatMagnitudes \cup { 0 - m : m \in FormatMagnitudes }
    \cup { NAN, INFINITY, NEG_INFINITY }

CallFriendlyFtoa ==
    \E val \in FormatInputs :
        /\ call = NoCall
        /\ call' = [op |-> "friendly_ftoa", val |-> val]
        /\ ret' = <<friendly_ftoa(val)>>
        /\ UNCHANGED <<original, dimensions, path, ui>>

NextFormat == CallFriendlyFtoa

SpecFormat == InitCalls /\ [][NextFormat]_vars

(***************************************************************************)
(* The callers of float_from_restricted_string: the callback of a unit     *)
(* selector reads the text its input field holds at that moment.           *)
(***************************************************************************)
\* The characters of the texts: digits, the sign and the point a float
\* input lets the user type one by one, and a space.
TextChars == {"0", "1", "5", "-", ".", " "}

\* The longest text tried.
MAX_TEXT_LEN == 3

TextInputs == UNION { [1..n -> TextChars] : n \in 0..MAX_TEXT_LEN }

CallFloatFromRestrictedString ==
    \E src \in TextInputs :
        /\ call = NoCall
        /\ call' = [op |-> "float_from_restricted_string", src |-> src,
                    panicked |-> float_from_restricted_string(src).panicked]
        /\ ret' = float_from_restricted_string(src).value
        /\ UNCHANGED <<original, dimensions, path, ui>>

NextParse == CallFloatFromRestrictedString

SpecParse == InitCalls /\ [][NextParse]_vars

(***************************************************************************)
(* The window in use: main builds the Ui from what the monitor probe       *)
(* returned, and then the user changes the text of an input or picks an    *)
(* entry of a unit selector, one event at a time.  Each event runs the     *)
(* callback of its widget to the end.  `call` keeps the event, the Ui      *)
(* before it and the event before it.                                       *)
(***************************************************************************)
\* The most events after start-up in the unit setup.
MAX_EVENTS == 3

Events(c) == IF c.op \in {"input", "choice"} THEN c.events ELSE 0

\* find_any_monitor_dimensions().ok() and build_ui.
Main(probes) ==
    \E probe \in probes :
        /\ call = NoCall
        /\ ~ui.built
        /\ ui' = Ui_new(ok(probe))
        /\ call' = [op |-> "main", probe |-> probe, before |-> ui]
        /\ UNCHANGED <<original, dimensions, path, ret>>

\* The user leaves `text` in an input, and the input's callback runs.  The
\* text may be the one the input held: the user typed and deleted.  At most
\* `most` events are followed.
Input(inputs, texts, most) ==
    \E input \in inputs :
        \E text \in texts \cup {ui.value[input]} :
            /\ ui.built
            /\ ~ui.panicked
            /\ Events(call) < most
            /\ ui' = input_callback([ui EXCEPT !.value[input] = text], input)
            /\ call' = [op |-> "input", widget |-> input, text |-> text,
                        before |-> ui, previous |-> call,
                        events |-> Events(call) + 1]
            /\ UNCHANGED <<original, dimensions, path, ret>>

\* The user picks the entry `index` of a unit selector.
Choice(selectors, most) ==
    \E selector \in selectors :
        \E index \in 0..(Len(ADD_ENTRY_CALLS) - 1) :
            /\ ui.built
            /\ ~ui.panicked
            /\ Events(call) < most
            /\ ui' = unit_selector_callback(ui, selector, index)
            /\ call' = [op |-> "choice", widget |-> selector, index |-> index,
                        before |-> ui, previous |-> call,
                        events |-> Events(call) + 1]
            /\ UNCHANGED <<original, dimensions, path, ret>>

\* The probe where it is not implemented: every platform but Windows.
NOT_IMPLEMENTED == {Err}

\* The unit setup: the scale of the application's unit of length.
UnitSetupInputs == {"app_per_real_input", "real_per_app_input"}

UnitSetupChoices == {"app_per_real_unit_selector", "real_per_app_unit_selector"}

UnitSetupTexts == { <<"2">>, <<"0", ".", "2", "5">>, <<"1", "2">> }

NextUnitSetup ==
    \/ Main(NOT_IMPLEMENTED)
    \/ Input(UnitSetupInputs, UnitSetupTexts, MAX_EVENTS)
    \/ Choice(UnitSetupChoices, MAX_EVENTS)

SpecUnitSetup == InitCalls /\ [][NextUnitSetup]_vars

\* The most events after start-up in the monitor properties.
MAX_MONITOR_EVENTS == 2

\* The largest width and height, in centimeters, an EDID is tried with.
MAX_EDID_SIZE == 53

\* What the probe can return: an error, or the maximum image size of the
\* first EDID that has one.
ProbeResults ==
    {Err} \cup { edid_dimensions(size[1], size[2]) :
                   size \in { <<MAX_EDID_SIZE, 30>>, <<34, 27>> } }

\* The monitor properties: the width and the height of the monitor.
WidthAndHeightInputs == {"width_input", "height_input"}

MonitorChoices ==
    {"width_unit_selector", "height_unit_selector", "diagonal_unit_selector"}

WidthAndHeightTexts == { <<"4", "0">>, <<"3", "0">>, <<"-">> }

NextMonitorProperties ==
    \/ Main(ProbeResults)
    \/ Input(WidthAndHeightInputs, WidthAndHeightTexts, MAX_MONITOR_EVENTS)
    \/ Choice(MonitorChoices, MAX_MONITOR_EVENTS)

SpecMonitorProperties == InitCalls /\ [][NextMonitorProperties]_vars

\* The most events after start-up in the diagonal and the aspect ratio.
MAX_DIAGONAL_EVENTS == 2

\* The monitor properties: the diagonal and the aspect ratio of the monitor.
DiagonalOrAspectInputs == {"diagonal_input", "aspect_n_input", "aspect_d_input"}

DiagonalOrAspectTexts == { <<"4">>, <<"3">>, <<"-">> }

NextDiagonalOrAspect ==
    \/ Main(ProbeResults)
    \/ Input(DiagonalOrAspectInputs, DiagonalOrAspectTexts, MAX_DIAGONAL_EVENTS)
    \/ Choice(MonitorChoices, MAX_DIAGONAL_EVENTS)

SpecDiagonalOrAspect == InitCalls /\ [][NextDiagonalOrAspect]_vars

\* The most events after start-up in the inputs PortalLike::update reads.
MAX_PORTAL_EVENTS == 3

\* The inputs PortalLike::update reads, and the height input beside them.
PortalLikeInputs ==
    {"width_input", "height_input", "distance_input", "app_per_real_input"}

PortalLikeTexts == { <<"2">>, <<"-">> }

NextPortalLike ==
    \/ Main(ProbeResults)
    \/ Input(PortalLikeInputs, PortalLikeTexts, MAX_PORTAL_EVENTS)

SpecPortalLike == InitCalls /\ [][NextPortalLike]_vars

\* The most events after start-up in the viewing distance, the scale and
\* their selectors.
MAX_MOVE_EVENTS == 3

\* The probe where it finds an EDID with a maximum image size.
MONITOR_FOUND == { edid_dimensions(MAX_EDID_SIZE, 30) }

\* The viewing distance and the scale of the application's unit.
MoveInputs == {"distance_input", "app_per_real_input"}

MoveChoices ==
    {"distance_unit_selector", "move_unit_selector", "app_per_real_unit_selector"}

MoveTexts == { <<"2">> }

NextMove ==
    \/ Main(MONITOR_FOUND)
    \/ Input(MoveInputs, MoveTexts, MAX_MOVE_EVENTS)
    \/ Choice(MoveChoices, MAX_MOVE_EVENTS)

SpecMove == InitCalls /\ [][NextMove]_vars

\* The most events after start-up in the inputs Focused::update reads.
MAX_FOCUSED_EVENTS == 3

\* The inputs Focused::update reads but the width, and the scale of the
\* application's unit beside them.
FocusedInputs ==
    {"height_input", "distance_input", "accurate_distance_input",
     "app_per_real_input"}

FocusedChoices == {"distance_unit_selector", "accurate_distance_unit_selector"}

FocusedTexts == { <<"2">>, <<"-">> }

NextFocused ==
    \/ Main(MONITOR_FOUND)
    \/ Input(FocusedInputs, FocusedTexts, MAX_FOCUSED_EVENTS)
    \/ Choice(FocusedChoices, MAX_FOCUSED_EVENTS)

SpecFocused == InitCalls /\ [][NextFocused]_vars

\* The most events after start-up in the whole window.
MAX_WINDOW_EVENTS == 2

\* A selector that is not inverted and the one that is.
WindowChoices == {"width_unit_selector", "app_per_real_unit_selector"}

WindowTexts == { <<"2">> }

\* The whole window: every input that has a callback.
NextWindow ==
    \/ Main(ProbeResults)
    \/ Input(EditableInputs, WindowTexts, MAX_WINDOW_EVENTS)
    \/ Choice(WindowChoices, MAX_WINDOW_EVENTS)

SpecWindow == InitCalls /\ [][NextWindow]_vars

(***************************************************************************)
(* The properties of the model.                                            *)
(***************************************************************************)
\* The distance between neighbouring values of the format at x.
Ulp(x) == 2 ^ MaxInt(0, BitLen(AbsInt(x)) - MANTISSA_DIGITS)

\* a and b are finite and at most n units in the last place apart.
Close(a, b, n) ==
    /\ is_finite(a)
    /\ is_finite(b)
    /\ AbsInt(a - b) <= n * Ulp(MaxInt(AbsInt(a), AbsInt(b)))

\* x is finite, not zero and not subnormal: it was rounded to
\* MANTISSA_DIGITS bits, neither overflowing nor underflowing.
Normal(x) == is_finite(x) /\ AbsInt(x) >= 2 ^ (MANTISSA_DIGITS - 1)

\* The catalog in the order the specification lists it.
ListedRatios ==
    << <<16, 9>>, <<16, 10>>, <<4, 3>>, <<5, 4>>, <<3, 2>>,
       <<17, 9>>, <<21, 9>>, <<32, 9>>, <<1, 1>>, <<4, 1>> >>

\* |ratio - n/d| for the i-th listed ratio n:d.
ListedDifference(i, ratio) ==
    Abs(Sub(ratio, Div(AsF64(ListedRatios[i][1]), AsF64(ListedRatios[i][2]))))

ListedPair(i) == <<AsF64(ListedRatios[i][1]), AsF64(ListedRatios[i][2])>>

\* C1: find_common_aspect_ratio(ratio, rounding) returns the pair of the
\* first listed ratio n:d with |ratio - n/d| < rounding, strictly, whether
\* or not a later one is closer, and None when there is none; 16/9 + 0.0001
\* with rounding 0.1 gives [16, 9] and 1.2345 with rounding 0.0001 gives None.
C1_FirstListedWithinRounding ==
    call.op = "find_common_aspect_ratio" =>
        LET within == { i \in 1..Len(ListedRatios) :
                          Lt(ListedDifference(i, call.ratio), call.rounding) }
        IN  /\ within = {} => ret = None
            /\ within # {} =>
                 ret = Some(ListedPair(CHOOSE i \in within : \A j \in within : i <= j))
            /\ (call.ratio = FromRat(160009, 90000) /\ call.rounding = FromRat(1, 10))
                 => ret = Some(<<AsF64(16), AsF64(9)>>)
            /\ (call.ratio = FromRat(12345, 10000) /\ call.rounding = FromRat(1, 10000))
                 => ret = None

\* C1 is exercised: 16:9 is returned although a later entry is strictly
\* closer to the ratio asked for.
C1_EarlierBeatsCloser ==
    /\ call.op = "find_common_aspect_ratio"
    /\ ret = Some(ListedPair(1))
    /\ \E i \in 2..Len(ListedRatios) :
         Lt(ListedDifference(i, call.ratio), ListedDifference(1, call.ratio))

\* The tolerance of "within floating-point tolerance", in units in the last
\* place: the rounding errors of a handful of operations.
TOLERANCE_ULPS == 4

Square(x) == Mul(x, x)

\* The round trip of a width and a height through the diagonal and the
\* aspect ratio stays in the range where every intermediate result is
\* rounded to MANTISSA_DIGITS bits: nothing overflows or underflows.
WidthAndHeightInRange(w, h) ==
    /\ Normal(w)
    /\ Normal(h)
    /\ Normal(Square(w))
    /\ Normal(Square(h))
    /\ Normal(Add(Square(w), Square(h)))
    /\ Normal(Div(w, h))
    /\ Normal(Square(Div(w, h)))
    /\ Normal(Add(Square(Div(w, h)), ONE))

RoundTripDone ==
    /\ original.variant = "WidthAndHeight"
    /\ path = <<"as_diagonal_and_aspect", "as_width_and_height">>

RoundTripReproduces ==
    /\ dimensions.variant = "WidthAndHeight"
    /\ Close(dimensions.width, original.width, TOLERANCE_ULPS)
    /\ Close(dimensions.height, original.height, TOLERANCE_ULPS)

\* C2 as stated: for all width > 0 and height > 0,
\* WidthAndHeight{width, height}.as_diagonal_and_aspect().as_width_and_height()
\* reproduces the width and the height within tolerance.
C2_RoundTripForAllPositive ==
    (RoundTripDone /\ original.width > 0 /\ original.height > 0)
        => RoundTripReproduces

\* C2 as amended: the round trip reproduces the width and the height within
\* tolerance for all width > 0 and height > 0 whose squares, sum of squares,
\* quotient and squared quotient neither overflow nor underflow.
C2_RoundTripInRange ==
    (RoundTripDone /\ WidthAndHeightInRange(original.width, original.height))
        => RoundTripReproduces

\* C2 is exercised: a round trip of an in-range, non-square monitor is done.
C2_RoundTripWitness ==
    /\ RoundTripDone
    /\ WidthAndHeightInRange(original.width, original.height)
    /\ original.width # original.height
    /\ RoundTripReproduces

\* diagonal() of the current WidthAndHeight value satisfies Pythagoras.
DiagonalIsPythagorean ==
    call.op = "diagonal" =>
        Close(Square(ret[1]),
              Add(Square(dimensions.width), Square(dimensions.height)),
              TOLERANCE_ULPS)

\* aspect() of the current WidthAndHeight value is width / height: multiplied
\* by the height it gives back the width.
AspectIsQuotient ==
    call.op = "aspect" =>
        Close(Mul(ret[1], dimensions.height), dimensions.width, TOLERANCE_ULPS)

PositiveWidthAndHeight(d) ==
    /\ d.variant = "WidthAndHeight"
    /\ is_finite(d.width) /\ d.width > 0
    /\ is_finite(d.height) /\ d.height > 0

\* C3 as stated: for every WidthAndHeight with positive width and height,
\* diagonal() squared equals width squared plus height squared within
\* tolerance, and aspect() equals width / height.
C3_PythagorasForAllPositive ==
    PositiveWidthAndHeight(dimensions) =>
        DiagonalIsPythagorean /\ AspectIsQuotient

\* C3 as amended: the same, for the positive widths and heights whose
\* squares, sum of squares and quotient neither overflow nor underflow.
C3_PythagorasInRange ==
    (/\ PositiveWidthAndHeight(dimensions)
     /\ WidthAndHeightInRange(dimensions.width, dimensions.height)) =>
        DiagonalIsPythagorean /\ AspectIsQuotient

\* C3 is exercised: diagonal() is called on an in-range, non-square monitor.
C3_PythagorasWitness ==
    /\ PositiveWidthAndHeight(dimensions)
    /\ WidthAndHeightInRange(dimensions.width, dimensions.height)
    /\ dimensions.width # dimensions.height
    /\ call.op = "diagonal"
    /\ Normal(ret[1])

\* The derivation of a width and a height from a diagonal D and an aspect
\* ratio a stays in the range where nothing overflows or underflows.
DiagonalAndAspectInRange(D, a) ==
    LET wh == diagonal_and_aspect_to_width_and_height(D, a)
    IN  /\ Normal(D)
        /\ Normal(a)
        /\ Normal(Square(D))
        /\ Normal(Square(a))
        /\ Normal(Add(Square(a), ONE))
        /\ WidthAndHeightInRange(wh[1], wh[2])

DerivedFromDiagonalAndAspect ==
    /\ original.variant = "DiagonalAndAspect"
    /\ path = <<"as_width_and_height">>

\* The derived width and height have the aspect ratio and the diagonal of
\* the original, and as_width_and_height() reports both.
DerivedIsConsistent ==
    LET w == dimensions.width
        h == dimensions.height
        D == original.diagonal
        a == original.aspect
    IN  /\ dimensions.variant = "WidthAndHeight"
        /\ Close(Mul(h, Sqrt(Add(Square(a), ONE))), D, TOLERANCE_ULPS)
        /\ Close(Div(w, h), a, TOLERANCE_ULPS)
        /\ Close(Add(Square(w), Square(h)), Square(D), TOLERANCE_ULPS)
        /\ call.op = "aspect" => Close(ret[1], a, TOLERANCE_ULPS)
        /\ call.op = "diagonal" => Close(ret[1], D, TOLERANCE_ULPS)
        /\ (D = FromRat(6858, 10000) /\ a = FromRat(16, 9)) =>
             /\ Close(w, FromRat(5979, 10000), TOLERANCE_ULPS)
             /\ Close(h, FromRat(3363, 10000), TOLERANCE_ULPS)

\* C4 as stated: for every DiagonalAndAspect{D > 0, a > 0},
\* width_and_height() is [w, h] with h = D / sqrt(a^2 + 1) and w = h * a, so
\* that w / h = a and w^2 + h^2 = D^2 within tolerance, and
\* as_width_and_height() reports the same aspect() and diagonal(); 27 in at
\* 16:9 is about 23.5 in by 13.2 in (0.598 m by 0.336 m).
C4_DerivationForAllPositive ==
    (DerivedFromDiagonalAndAspect /\ original.diagonal > 0 /\ original.aspect > 0)
        => DerivedIsConsistent

\* C4 as amended: the same, for the D > 0 and a > 0 for which a^2 + 1, D^2
\* and the squares of the derived width and height neither overflow nor
\* underflow.
C4_DerivationInRange ==
    (/\ DerivedFromDiagonalAndAspect
     /\ DiagonalAndAspectInRange(original.diagonal, original.aspect))
        => DerivedIsConsistent

\* C4 is exercised: diagonal() is asked of the width and height derived from
\* 27 inches at 16:9.
C4_DerivationWitness ==
    /\ DerivedFromDiagonalAndAspect
    /\ DiagonalAndAspectInRange(original.diagonal, original.aspect)
    /\ original.diagonal = FromRat(6858, 10000)
    /\ original.aspect = FromRat(16, 9)
    /\ call.op = "diagonal"
    /\ DerivedIsConsistent

\* The neighbours of a non-negative finite x in the format.
NextUp(x) == x + Ulp(x)
NextDown(x) == x - Ulp(x - 1)

HALF_PI == FromAngle(HALF_PI_ANGLE)

\* h is the arctangent of q >= 0, as an independent tangent sees it: q lies
\* between the tangents of the neighbours of h, where pi / 2 is the largest
\* angle and has no upper neighbour.
HalfAngleIs(h, q) ==
    /\ is_finite(h)
    /\ 0 <= h
    /\ h <= HALF_PI
    /\ h > 0 => Le(Tan(NextDown(h)), q)
    /\ NextUp(h) <= HALF_PI => Le(q, Tan(NextUp(h)))

PositiveFinite(x) == is_finite(x) /\ x > 0

\* fov() has been called on a monitor of finite positive width.
FovCalled ==
    /\ call.op = "fov"
    /\ PositiveFinite(width_and_height(call.self.dimensions)[1])
    /\ PositiveFinite(call.self.distance)

\* C5: fov() = 2 * atan((width / 2) / distance) with width the first element
\* of dimensions.width_and_height(), i.e. tan(fov / 2) = width / (2 *
\* distance), for every finite positive width and distance and for either
\* storage variant.
C5_FovIsTwiceAtan ==
    FovCalled =>
        LET width == width_and_height(call.self.dimensions)[1]
            half == Div(ret[1], TWO)
        IN  /\ ret[1] = Mul(half, TWO)
            /\ HalfAngleIs(half, Div(Div(width, TWO), call.self.distance))

\* C5 is exercised: fov() is called on a DiagonalAndAspect monitor and gives
\* an angle strictly between 0 and pi.
C5_FovWitness ==
    /\ FovCalled
    /\ call.self.dimensions.variant = "DiagonalAndAspect"
    /\ ret[1] > 0
    /\ NextUp(Div(ret[1], TWO)) <= HALF_PI

\* C6: monitor_fov_for_distance(distance, relative_to_monitor) =
\* 2 * atan(tan(fov() / 2) * distance_from_eye / distance), where
\* distance_from_eye is distance + self.distance when relative_to_monitor and
\* distance otherwise; the final division is by distance.
C6_FovForDistanceFormula ==
    call.op = "monitor_fov_for_distance" =>
        LET distance_from_eye ==
                IF call.relative_to_monitor
                THEN Add(call.distance, call.self.distance)
                ELSE call.distance
            tangent == Div(Mul(Tan(Div(fov(call.self), TWO)), distance_from_eye),
                           call.distance)
            half == Div(ret[1], TWO)
        IN  IF is_nan(tangent) THEN is_nan(ret[1])
            ELSE ret[1] = Mul(half, TWO) /\ HalfAngleIs(half, tangent)

\* C6 is exercised: the field of view is asked relative to the monitor, and
\* it differs from fov().
C6_FovForDistanceWitness ==
    /\ call.op = "monitor_fov_for_distance"
    /\ call.relative_to_monitor
    /\ PositiveFinite(width_and_height(call.self.dimensions)[1])
    /\ ret[1] > 0
    /\ NextUp(Div(ret[1], TWO)) <= HALF_PI
    /\ ret[1] # fov(call.self)

\* fov() of the called configuration at another distance, and with another
\* width.
FovAtDistance(d) == fov(MonitorConfiguration(call.self.dimensions, d))
FovAtWidth(w) == fov(MonitorConfiguration(WidthAndHeight(w, ONE), call.self.distance))

\* C7 as stated: for a fixed width fov() strictly decreases as distance
\* increases, and for a fixed distance it strictly increases as width
\* increases.
C7_FovStrictlyMonotone ==
    FovCalled =>
        /\ \A d \in DistanceInputs :
             d > call.self.distance => Lt(FovAtDistance(d), ret[1])
        /\ \A w \in LengthInputs :
             w > width_and_height(call.self.dimensions)[1] => Lt(ret[1], FovAtWidth(w))

\* C7 as amended: for a fixed width fov() never increases as distance
\* increases, and for a fixed distance it never decreases as width increases.
C7_FovMonotone ==
    FovCalled =>
        /\ \A d \in DistanceInputs :
             d > call.self.distance => Le(FovAtDistance(d), ret[1])
        /\ \A w \in LengthInputs :
             w > width_and_height(call.self.dimensions)[1] => Le(ret[1], FovAtWidth(w))

\* C7 is exercised: a larger distance gives a strictly smaller fov() and a
\* larger width a strictly larger one.
C7_FovMonotoneWitness ==
    /\ FovCalled
    /\ \E d \in DistanceInputs :
         d > call.self.distance /\ Lt(FovAtDistance(d), ret[1])
    /\ \E w \in LengthInputs :
         w > width_and_height(call.self.dimensions)[1] /\ Lt(ret[1], FovAtWidth(w))

\* C8 as stated: for every finite positive width and distance, fov() lies
\* strictly between 0 and 180 degrees.
C8_FovStrictlyInside ==
    FovCalled =>
        Lt(0, get_degree(ret[1])) /\ Lt(get_degree(ret[1]), AsF64(180))

\* C8 as amended: for every finite positive width and distance, fov() lies
\* between 0 and 180 degrees, both included.
C8_FovWithinBounds ==
    FovCalled =>
        Le(0, get_degree(ret[1])) /\ Le(get_degree(ret[1]), AsF64(180))

\* C8 is exercised: fov() of a wide monitor seen from very near is exactly
\* 180 degrees.
C8_FovReachesBound ==
    /\ FovCalled
    /\ get_degree(ret[1]) = AsF64(180)

\* C9 as stated: conversion_rate(a, b) is the factor that converts a value in
\* unit a into unit b: x * conversion_rate(a, b) equals
\* convert_units(length_from_unit(x, a), b) within tolerance for all units a, b
\* and values x, and conversion_rate(Meters, Centimeters) is 100.
C9_RateConvertsAToB ==
    /\ call.op = "convert_units" =>
         Close(Mul(call.from.val, conversion_rate(call.from.unit, call.b)),
               ret[1], TOLERANCE_ULPS)
    /\ (call.op = "conversion_rate" /\ call.a = "Meters" /\ call.b = "Centimeters")
         => ret[1] = AsF64(100)

\* The meters in one unit, exactly, in ten-thousandths of a meter.
TenThousandths(unit) ==
    CASE unit = "Meters" -> 10000
      [] unit = "Centimeters" -> 100
      [] unit = "Feet" -> 3048
      [] unit = "Inches" -> 254

C11_RatesAreReciprocal ==
    call.op = "conversion_rate" =>
        /\ Close(Mul(ret[1], conversion_rate(call.b, call.a)), ONE, TOLERANCE_ULPS)
        /\ call.a = call.b => ret[1] = ONE

\* C11 is exercised: the rate between two different units is asked, and
\* neither it nor its reciprocal is 1.
C11_DifferentUnits ==
    /\ call.op = "conversion_rate"
    /\ call.a = "Inches"
    /\ call.b = "Centimeters"
    /\ ret[1] # ONE
    /\ conversion_rate(call.b, call.a) # ONE
    /\ Close(Mul(ret[1], conversion_rate(call.b, call.a)), ONE, TOLERANCE_ULPS)

\* The smallest positive normal value, f64::MIN_POSITIVE.
MIN_POSITIVE == 2 ^ (MANTISSA_DIGITS - 1)

\* a and b are equal within tolerance: a few units in the last place apart,
\* or, at the bottom of the range where a Length underflows, less than the
\* smallest normal value apart.
WithinTolerance(a, b) ==
    /\ is_finite(a)
    /\ is_finite(b)
    /\ \/ Close(a, b, TOLERANCE_ULPS)
       \/ AbsInt(a - b) < MIN_POSITIVE

\* C12: for every unit u and every finite x,
\* convert_units(length_from_unit(x, u), u) equals x within tolerance, and
\* exactly for Meters, whose factor is the identity.
C12_UnitRoundTrip ==
    (call.op = "convert_units" /\ call.b = call.from.unit) =>
        /\ WithinTolerance(ret[1], call.from.val)
        /\ call.b = "Meters" => (call.val = call.from.val /\ ret[1] = call.from.val)

\* C12 is exercised: a number is made a Length in inches, which is not that
\* number, and read back in inches.
C12_InchesRoundTrip ==
    /\ call.op = "convert_units"
    /\ call.b = "Inches"
    /\ call.from.unit = "Inches"
    /\ call.from.val = FromRat(5, 2)
    /\ call.val # call.from.val
    /\ WithinTolerance(ret[1], call.from.val)

\* The units in the order of their tags, and the noun of each.
UnitOfTag == <<"Meters", "Centimeters", "Feet", "Inches">>
NounOfUnit ==
    [ u \in Unit |->
        CASE u = "Meters" -> <<"meter", "meters">>
          [] u = "Centimeters" -> <<"centimeter", "centimeters">>
          [] u = "Feet" -> <<"foot", "feet">>
          [] u = "Inches" -> <<"inch", "inches">> ]

\* C13: Unit::try_from(v) is Err for every v outside 0..3 and never a
\* default unit; for v in 0..3 it is Ok(u) with 0 -> Meters,
\* 1 -> Centimeters, 2 -> Feet, 3 -> Inches and i32::from(u) = v; and the
\* menu entry with index v of a unit selector is labelled with that unit.
C13_TagLookup ==
    call.op = "try_from" =>
        IF call.value \in 0..3
        THEN /\ ret[1] = Ok(UnitOfTag[call.value + 1])
             /\ from(ret[1].value) = call.value
             /\ \A number \in Number :
                  LET entry == selector_entries(number)[call.value + 1]
                  IN  /\ entry.index = call.value
                      /\ entry.label \in
                           { NounOfUnit[ret[1].value][1], NounOfUnit[ret[1].value][2] }
        ELSE ret[1] = Err

\* C13 is exercised: a tag outside 0..3 is looked up and is an error.
C13_TagOutOfRange ==
    /\ call.op = "try_from"
    /\ call.value = 4
    /\ ret[1] = Err

\* The reading of a displayed text: its sign, the digits before and after
\* its decimal point, and the numbers they denote.
Digit == {"0", "1", "2", "3", "4", "5", "6", "7", "8", "9"}
DigitValue(c) == CHOOSE d \in 0..9 : DIGIT_CHARS[d + 1] = c
IsNegativeText(t) == t # <<>> /\ t[1] = "-"
Unsigned(t) == IF IsNegativeText(t) THEN Tail(t) ELSE t
PointAt(u) ==
    IF \E i \in 1..Len(u) : u[i] = "." THEN CHOOSE i \in 1..Len(u) : u[i] = "." ELSE 0
WholeDigits(u) == IF PointAt(u) = 0 THEN u ELSE SubSeq(u, 1, PointAt(u) - 1)
FractionDigits(u) == IF PointAt(u) = 0 THEN <<>> ELSE SubSeq(u, PointAt(u) + 1, Len(u))
AllDigits(ds) == \A i \in 1..Len(ds) : ds[i] \in Digit

RECURSIVE NumberOf(_)
NumberOf(ds) ==
    IF ds = <<>> THEN 0
    ELSE (10 * NumberOf(SubSeq(ds, 1, Len(ds) - 1))) + DigitValue(ds[Len(ds)])

ThousandthsOf(fraction) == NumberOf(fraction) * (10 ^ (3 - Len(fraction)))

\* C14: for every finite v, friendly_ftoa(v) is v rounded to three fraction
\* digits in fixed-point notation, with the trailing zeros of the fraction
\* removed, and the decimal point too when the whole fraction is zero; the
\* digits of the integer part are never removed (3.14 -> "3.14", 5 -> "5",
\* 100 -> "100").
C14_TrimmedFixedPoint ==
    (call.op = "friendly_ftoa" /\ is_finite(call.val)) =>
        LET t == ret[1]
            u == Unsigned(t)
            whole == WholeDigits(u)
            fraction == FractionDigits(u)
            m == AbsInt(call.val)
            carried == NumberOf(whole) - (m \div ONE)
            error == (((carried * 1000) + ThousandthsOf(fraction)) * ONE)
                       - ((m % ONE) * 1000)
        IN  /\ IsNegativeText(t) <=> call.val < 0
            /\ whole # <<>>
            /\ AllDigits(whole)
            /\ Len(whole) > 1 => whole[1] # "0"
            /\ Len(fraction) <= 3
            /\ AllDigits(fraction)
            /\ PointAt(u) # 0 => (fraction # <<>> /\ fraction[Len(fraction)] # "0")
            /\ carried \in {0, 1}
            /\ 2 * AbsInt(error) <= ONE
            /\ call.val = Nearest(314, 100) => t = <<"3", ".", "1", "4">>
            /\ call.val = 5 * ONE => t = <<"5">>
            /\ call.val = 100 * ONE => t = <<"1", "0", "0">>

\* C14 is exercised: a whole number with zeros in its integer part is
\* formatted.
C14_HundredKeepsItsZeros ==
    /\ call.op = "friendly_ftoa"
    /\ call.val = 100 * ONE
    /\ ret[1] = <<"1", "0", "0">>

\* C15: friendly_ftoa(NaN) is "<error>", friendly_ftoa(+Infinity) is the
\* infinity sign and friendly_ftoa(-Infinity) is "-" and the infinity sign;
\* no other value gives these texts.
C15_Sentinels ==
    call.op = "friendly_ftoa" =>
        /\ is_nan(call.val) <=> ret[1] = <<"<", "e", "r", "r", "o", "r", ">">>
        /\ call.val = INFINITY <=> ret[1] = <<"U+221E">>
        /\ call.val = NEG_INFINITY <=> ret[1] = <<"-", "U+221E">>

\* C15 is exercised: negative infinity is formatted.
C15_NegativeInfinity ==
    /\ call.op = "friendly_ftoa"
    /\ call.val = NEG_INFINITY
    /\ ret[1] = <<"-", "U+221E">>

\* C19 as stated: float_from_restricted_string returns None exactly when
\* the text is empty after trimming and Some(parsed value) otherwise, and
\* never panics, for every text the input field can hold when a unit is
\* selected: empty, a number, or partially typed such as "-" or ".".
C19_NeverPanicsOnFieldText ==
    call.op = "float_from_restricted_string" =>
        /\ ~call.panicked
        /\ ret = None <=> (\A i \in 1..Len(call.src) : call.src[i] = " ")
        /\ ret # None => ret = Some(parse(trim(call.src)).value)

\* What an input shows, read as a number; a text that is not a number reads
\* as NAN.
Shown(u, input) ==
    IF parse(u.value[input]).ok THEN parse(u.value[input]).value ELSE NAN

\* Half of the last decimal an input displays, rounded up.
HALF_THOUSANDTH == (ONE \div 2000) + 1

\* app_per_real_change_handler ran on the positive number a, and then
\* real_per_app_change_handler on the text it left in real_per_app_input.
ScaledThereAndBack ==
    /\ call.op = "input"
    /\ call.widget = "real_per_app_input"
    /\ call.text = call.before.value["real_per_app_input"]
    /\ call.previous.op = "input"
    /\ call.previous.widget = "app_per_real_input"
    /\ parse(call.previous.text).ok
    /\ parse(call.previous.text).value > 0
    /\ ui.choice = call.previous.before.choice

\* C16 as stated: the unit scaling is reversible.  After
\* app_per_real_change_handler on a positive a and real_per_app_change_handler
\* on the text r it displayed, app_per_real_input shows a again, up to what
\* the rounding of r and of the result to three decimals can change (r is
\* displayed with at least one non-zero digit); with both selectors on the
\* same unit, a and r are reciprocals up to the same rounding.
C16_ScalingIsReversible ==
    ScaledThereAndBack =>
        LET a == parse(call.previous.text).value
            r == Shown(call.before, "real_per_app_input")
            restored == Shown(ui, "app_per_real_input")
            same_unit == ui.choice["app_per_real_unit_selector"]
                           = ui.choice["real_per_app_unit_selector"]
            slack(x) == ((x * HALF_THOUSANDTH) \div (r - HALF_THOUSANDTH))
                          + HALF_THOUSANDTH + (TOLERANCE_ULPS * Ulp(x))
        IN  (is_finite(r) /\ r > HALF_THOUSANDTH) =>
                /\ is_finite(restored)
                /\ AbsInt(restored - a) <= slack(a)
                /\ same_unit =>
                     AbsInt(Mul(a, r) - ONE)
                       <= ((a * HALF_THOUSANDTH) \div ONE) + (TOLERANCE_ULPS * Ulp(ONE))

\* The variant a re-representation function yields.
TargetVariant ==
    [ as_width_and_height |-> "WidthAndHeight",
      as_diagonal_and_aspect |-> "DiagonalAndAspect" ]

\* An accessor called on the variant that stores what it returns gives the
\* stored fields.
StoredFieldsReturned ==
    /\ (call.op = "width_and_height" /\ dimensions.variant = "WidthAndHeight")
         => ret = <<dimensions.width, dimensions.height>>
    /\ (call.op = "aspect" /\ dimensions.variant = "DiagonalAndAspect")
         => ret = <<dimensions.aspect>>
    /\ (call.op = "diagonal" /\ dimensions.variant = "DiagonalAndAspect")
         => ret = <<dimensions.diagonal>>

\* A step that re-represents the current value.
ReRepresented == path' # path

\* C17: width_and_height() of a WidthAndHeight value, and aspect() and
\* diagonal() of a DiagonalAndAspect value, return exactly the stored
\* fields; as_width_and_height() always yields the WidthAndHeight variant
\* and as_diagonal_and_aspect() the DiagonalAndAspect variant; each is the
\* identity on a value already in its target variant, so it is idempotent;
\* and no call changes the value it is called on: the value the chain
\* started from stays as it was, and an accessor leaves the current value.
C17_AccessorsAndReRepresentation ==
    /\ [](StoredFieldsReturned)
    /\ [][ /\ original' = original
           /\ ReRepresented =>
                /\ dimensions'.variant = TargetVariant[path'[Len(path')]]
                /\ dimensions.variant = dimensions'.variant => dimensions' = dimensions
                /\ (path # <<>> /\ path[Len(path)] = path'[Len(path')])
                     => dimensions' = dimensions
           /\ ~ReRepresented => dimensions' = dimensions ]_vars

\* C17 is exercised: a WidthAndHeight value with different sides has been
\* re-represented twice as DiagonalAndAspect, and diagonal() then returns
\* the stored diagonal.
C17_TwiceReRepresented ==
    /\ path = <<"as_diagonal_and_aspect", "as_diagonal_and_aspect">>
    /\ original.variant = "WidthAndHeight"
    /\ original.width # original.height
    /\ dimensions = as_diagonal_and_aspect(original)
    /\ call.op = "diagonal"
    /\ ret = <<dimensions.diagonal>>

\* How many times a handler has been entered.
TimesEntered(u, handler) ==
    Cardinality({ i \in 1..Len(u.trace) : u.trace[i] = handler })

\* C18: start-up goes on whatever the monitor probe returned.  After an
\* error every input is empty and no handler has run; after dimensions the
\* width and height inputs show them in centimeters, the unit their
\* selectors show, and width_or_height_change_handler has run once and
\* filled the diagonal and aspect inputs.
C18_ProbeFailureIsNotFatal ==
    call.op = "main" =>
        /\ ui.built
        /\ ~ui.panicked
        /\ ~call.probe.ok =>
             /\ \A input \in FloatInputs : ui.value[input] = <<>>
             /\ ui.trace = <<>>
        /\ call.probe.ok =>
             /\ Close(Mul(Shown(ui, "width_input"), FromRat(1, 100)),
                      call.probe.value.width, TOLERANCE_ULPS)
             /\ Close(Mul(Shown(ui, "height_input"), FromRat(1, 100)),
                      call.probe.value.height, TOLERANCE_ULPS)
             /\ UnitOfTag[ui.choice["width_unit_selector"] + 1] = "Centimeters"
             /\ UnitOfTag[ui.choice["height_unit_selector"] + 1] = "Centimeters"
             /\ TimesEntered(ui, "width_or_height_change_handler") = 1
             /\ \A input \in {"diagonal_input", "aspect_n_input", "aspect_d_input"} :
                  ui.value[input] # <<>>

\* C18 is exercised: the probe failed and the window is built, empty.
C18_StartedWithoutDimensions ==
    /\ call.op = "main"
    /\ ~call.probe.ok
    /\ ui.built
    /\ ui.value["width_input"] = <<>>

\* An input displays the number x: the text friendly_ftoa gives NaN and the
\* infinities, and otherwise a number within the rounding of the display
\* and of reading it back.
Displays(u, input, x) ==
    IF is_nan(x) THEN u.value[input] = NAN_FTOA
    ELSE IF is_infinite(x)
         THEN u.value[input] = (IF x < 0 THEN <<"-">> ELSE <<>>) \o INFINITY_FTOA
    ELSE /\ is_finite(Shown(u, input))
         /\ AbsInt(Shown(u, input) - x) <= HALF_THOUSANDTH + Ulp(x)

\* The Ui as a callback of `call.widget` finds it: the Ui before the event
\* with the text the user left in the input.
Found == [call.before EXCEPT !.value[call.widget] = call.text]

\* The user changed the width or the height.
WidthOrHeightChanged ==
    /\ call.op = "input"
    /\ call.widget \in {"width_input", "height_input"}

\* The length an input and its selector give, in meters.
LengthShown(u, input, selector) ==
    Mul(parse(u.value[input]).value, coefficient(UnitOfTag[u.choice[selector] + 1]))

\* The listed ratios less than 0.1 from ratio.
ListedWithinTenth(ratio) ==
    { i \in 1..Len(ListedRatios) : Lt(ListedDifference(i, ratio), FromRat(1, 10)) }

\* C20: width_or_height_change_handler.  When the width and height inputs
\* both parse, the diagonal input then shows sqrt(width^2 + height^2) in the
\* unit of the diagonal selector, width and height each taken in the unit of
\* its own selector; the aspect inputs show the first listed pair within 0.1
\* of width / height, or width / height and 1 when there is none; the width
\* and height inputs keep their texts; and OutputTabs::update runs next.
\* When either does not parse, no input changes and OutputTabs::update does
\* not run.
C20_WidthOrHeightChangeHandler ==
    WidthOrHeightChanged =>
        IF parse(Found.value["width_input"]).ok /\ parse(Found.value["height_input"]).ok
        THEN LET width == LengthShown(Found, "width_input", "width_unit_selector")
                 height == LengthShown(Found, "height_input", "height_unit_selector")
                 unit == UnitOfTag[Found.choice["diagonal_unit_selector"] + 1]
                 ratio == Div(width, height)
                 within == ListedWithinTenth(ratio)
                 pair == IF within = {} THEN <<ratio, ONE>>
                         ELSE ListedPair(CHOOSE i \in within : \A j \in within : i <= j)
             IN  /\ Displays(ui, "diagonal_input",
                             Div(Sqrt(Add(Square(width), Square(height))),
                                 coefficient(unit)))
                 /\ Displays(ui, "aspect_n_input", pair[1])
                 /\ Displays(ui, "aspect_d_input", pair[2])
                 /\ ui.value["width_input"] = Found.value["width_input"]
                 /\ ui.value["height_input"] = Found.value["height_input"]
                 /\ ui.choice = Found.choice
                 /\ SubSeq(ui.trace, 1, Len(Found.trace) + 2)
                      = Found.trace \o <<"width_or_height_change_handler",
                                         "OutputTabs::update">>
                 /\ TimesEntered(ui, "OutputTabs::update")
                      = TimesEntered(Found, "OutputTabs::update") + 1
        ELSE /\ ui.value = Found.value
             /\ ui.choice = Found.choice
             /\ ui.trace = Append(Found.trace, "width_or_height_change_handler")

\* C20 is exercised: the width is in meters and the height in centimeters,
\* both parse, no listed ratio is within 0.1 of their ratio, and the aspect
\* inputs show the ratio and 1.
C20_UnlistedRatioShown ==
    /\ WidthOrHeightChanged
    /\ parse(Found.value["width_input"]).ok
    /\ parse(Found.value["height_input"]).ok
    /\ ui.choice["width_unit_selector"] # ui.choice["height_unit_selector"]
    /\ ListedWithinTenth(
           Div(LengthShown(Found, "width_input", "width_unit_selector"),
               LengthShown(Found, "height_input", "height_unit_selector"))) = {}
    /\ ui.value["aspect_d_input"] = <<"1">>
    /\ ui.value["diagonal_input"] # <<>>

\* The user changed the diagonal or a term of the aspect ratio.
DiagonalOrAspectChanged ==
    /\ call.op = "input"
    /\ call.widget \in {"diagonal_input", "aspect_n_input", "aspect_d_input"}

\* The inputs and selectors diagonal_or_aspect_change_handler leaves alone.
DiagonalOrAspectFrame ==
    /\ \A input \in EditableInputs \ {"width_input", "height_input"} :
          ui.value[input] = Found.value[input]
    /\ ui.choice = Found.choice
    /\ ui.prev_rc = Found.prev_rc

\* C21: diagonal_or_aspect_change_handler.  When the diagonal input and both
\* aspect inputs parse, the height input then shows
\* diagonal / sqrt((n / d)^2 + 1) and the width input that height times
\* n / d, each in the unit of its own selector, the diagonal taken in the
\* unit of the diagonal selector; the diagonal, aspect, distance and unit
\* setup inputs and every selector are as they were; and OutputTabs::update
\* runs next, once.  When any of the three does not parse, no input changes
\* and OutputTabs::update does not run.
C21_DiagonalOrAspectChangeHandler ==
    DiagonalOrAspectChanged =>
        IF /\ parse(Found.value["diagonal_input"]).ok
           /\ parse(Found.value["aspect_n_input"]).ok
           /\ parse(Found.value["aspect_d_input"]).ok
        THEN LET diag == LengthShown(Found, "diagonal_input", "diagonal_unit_selector")
                 ratio == Div(parse(Found.value["aspect_n_input"]).value,
                              parse(Found.value["aspect_d_input"]).value)
                 height == Div(diag, Sqrt(Add(Square(ratio), ONE)))
                 width == Mul(height, ratio)
                 width_unit == UnitOfTag[Found.choice["width_unit_selector"] + 1]
                 height_unit == UnitOfTag[Found.choice["height_unit_selector"] + 1]
             IN  /\ Displays(ui, "width_input", Div(width, coefficient(width_unit)))
                 /\ Displays(ui, "height_input", Div(height, coefficient(height_unit)))
                 /\ DiagonalOrAspectFrame
                 /\ SubSeq(ui.trace, 1, Len(Found.trace) + 2)
                      = Found.trace \o <<"diagonal_or_aspect_change_handler",
                                         "OutputTabs::update">>
                 /\ TimesEntered(ui, "OutputTabs::update")
                      = TimesEntered(Found, "OutputTabs::update") + 1
        ELSE /\ ui.value = Found.value
             /\ ui.choice = Found.choice
             /\ ui.prev_rc = Found.prev_rc
             /\ ui.trace = Append(Found.trace, "diagonal_or_aspect_change_handler")

\* C21 is exercised: the width selector and the height selector show
\* different units, the diagonal and the aspect inputs parse to 4 and 4:3,
\* and the width and height inputs show different numbers from before.
C21_WidthAndHeightDerived ==
    /\ DiagonalOrAspectChanged
    /\ Found.value["diagonal_input"] = <<"4">>
    /\ Found.value["aspect_n_input"] = <<"4">>
    /\ Found.value["aspect_d_input"] = <<"3">>
    /\ ui.choice["width_unit_selector"] # ui.choice["height_unit_selector"]
    /\ ui.value["width_input"] # Found.value["width_input"]
    /\ ui.value["height_input"] # Found.value["height_input"]
    /\ parse(ui.value["width_input"]).ok

\* The outputs of PortalLike.
PortalLikeOutputs == {"portal_like.fov_output", "move_output", "move_units_output"}

\* The four inputs PortalLike::update is to read all parse.
PortalLikeInputsParse(u) ==
    \A input \in {"width_input", "height_input", "distance_input",
                  "app_per_real_input"} : parse(u.value[input]).ok

\* How many times a handler was entered during the last event.
EnteredInEvent(handler) ==
    TimesEntered(ui, handler) - TimesEntered(call.before, handler)

\* C22 as stated: PortalLike::update writes its three outputs only when the
\* width, height, distance and app-per-real inputs all parse; when one of
\* the four, the height input in particular, is empty or does not parse, the
\* three outputs are left as they were.
C22_OutputsNeedAllFourInputs ==
    (call.op = "input" /\ ~PortalLikeInputsParse(ui)) =>
        \A output \in PortalLikeOutputs : ui.value[output] = call.before.value[output]

\* PortalLike::update wrote its outputs in the last event: it ran, and the
\* inputs it reads parse.
PortalLikeWrote ==
    /\ call.op = "input"
    /\ EnteredInEvent("PortalLike::update") = 1
    /\ \A input \in {"width_input", "distance_input", "app_per_real_input"} :
          parse(ui.value[input]).ok

\* The unit a selector shows.
UnitShown(u, selector) == UnitOfTag[u.choice[selector] + 1]

\* C23 as stated: when PortalLike::update writes its outputs, move_output
\* shows the viewing distance in the unit of the move selector, and
\* move_units_output the same distance in application units: the distance
\* in the unit of the app-per-real selector times the number of the
\* app-per-real input, whatever units the three selectors show.
C23_MoveInApplicationUnits ==
    PortalLikeWrote =>
        LET distance == LengthShown(ui, "distance_input", "distance_unit_selector")
            app_per_real == parse(ui.value["app_per_real_input"]).value
        IN  /\ Displays(ui, "move_output",
                        Div(distance, coefficient(UnitShown(ui, "move_unit_selector"))))
            /\ Displays(ui, "move_units_output",
                        Mul(Div(distance,
                                coefficient(UnitShown(ui, "app_per_real_unit_selector"))),
                            app_per_real))

\* The four inputs Focused::update reads all parse.
FocusedInputsParse(u) ==
    \A input \in {"width_input", "height_input", "distance_input",
                  "accurate_distance_input"} : parse(u.value[input]).ok

\* The MonitorConfiguration the inputs and their selectors describe.
ConfigurationShown(u) ==
    MonitorConfiguration(
        WidthAndHeight(LengthShown(u, "width_input", "width_unit_selector"),
                       LengthShown(u, "height_input", "height_unit_selector")),
        LengthShown(u, "distance_input", "distance_unit_selector"))

\* The text of an angle in an output.
AngleText(angle) == friendly_ftoa(get_degree(angle)) \o DEGREE_SIGN

\* The focused field of view the inputs and their selectors describe.
FocusedFovText(u) ==
    AngleText(monitor_fov_for_distance(
                  ConfigurationShown(u),
                  LengthShown(u, "accurate_distance_input",
                              "accurate_distance_unit_selector"),
                  TRUE))

\* C24: Focused::update.  When the width, height, distance and accurate
\* distance inputs all parse, the focused output then shows
\* monitor_fov_for_distance(accurate distance, true) of the WidthAndHeight
\* configuration of the inputs, each in the unit of its selector, in
\* degrees followed by the degree sign, whatever the unit setup holds; when
\* one of the four does not parse the output is left as it was.
C24_FocusedUpdate ==
    (call.op = "input" /\ EnteredInEvent("Focused::update") = 1) =>
        IF FocusedInputsParse(ui)
        THEN ui.value["focused.fov_output"] = FocusedFovText(ui)
        ELSE ui.value["focused.fov_output"] = call.before.value["focused.fov_output"]

\* C24 is exercised: with a focused field of view shown, the user changes
\* the scale of the application's unit; OutputTabs::update runs
\* Focused::update, and the output shows the same angle.
C24_FocusedShownAfterScaleChange ==
    /\ call.op = "input"
    /\ call.widget = "app_per_real_input"
    /\ parse(call.text).ok
    /\ call.before.value["app_per_real_input"] # call.text
    /\ EnteredInEvent("Focused::update") = 1
    /\ FocusedInputsParse(ui)
    /\ ui.value["focused.fov_output"] = call.before.value["focused.fov_output"]
    /\ Len(ui.value["focused.fov_output"]) > 1

\* C25 as stated: at the start of every selection callback of a unit
\* selector, the remembered previous index is the entry the selector showed
\* just before this selection, the default unit installed at construction
\* included; the callback then remembers the newly chosen index, whether or
\* not the input holds a value.
C25_PreviousIndexIsShownUnit ==
    call.op = "choice" =>
        /\ call.before.prev_rc[call.widget] = call.before.choice[call.widget]
        /\ ~ui.panicked => ui.prev_rc[call.widget] = call.index

\* The user picked an entry of a unit selector, and the callback returned.
UnitChanged == call.op = "choice" /\ ~ui.panicked

\* a and b are the same quantity up to `rounding` and the rounding of the
\* arithmetic.
SameQuantity(a, b, rounding) ==
    /\ is_finite(a)
    /\ is_finite(b)
    /\ AbsInt(a - b)
         <= rounding + (TOLERANCE_ULPS * Ulp(MaxInt(AbsInt(a), AbsInt(b))))

\* C26 as stated: changing the unit in a selector preserves the quantity
\* its input shows.  For a selector that is not inverted the new number
\* taken in the new unit is the length the old number was in the previous
\* unit, up to the rounding of the display; for the inverted app-per-real
\* selector the number of application units in a meter is the same before
\* and after; an empty input stays empty.
C26_UnitChangePreservesQuantity ==
    UnitChanged =>
        LET selector == UNIT_SELECTORS[call.widget]
            old_text == call.before.value[selector.input_field]
            old_val == parse(trim(old_text)).value
            new_val == Shown(ui, selector.input_field)
            prev == coefficient(UnitOfTag[call.before.prev_rc[call.widget] + 1])
            new == coefficient(UnitOfTag[call.index + 1])
        IN  IF trim(old_text) = <<>>
            THEN ui.value[selector.input_field] = old_text
            ELSE IF ~selector.invert
                 THEN SameQuantity(Mul(new_val, new), Mul(old_val, prev),
                                   Mul(HALF_THOUSANDTH, new) + 1)
                 ELSE SameQuantity(Div(new_val, new), Div(old_val, prev),
                                   Div(HALF_THOUSANDTH, new) + 1)

\* C27 as stated: the outputs are never stale.  After any sequence of
\* changes of inputs and of unit selectors, whenever the width, height,
\* distance and accurate distance inputs all parse, the focused output shows
\* monitor_fov_for_distance of the numbers the inputs hold, each in the unit
\* its selector shows; and when the app-per-real input parses as well, the
\* portal-like output shows fov() of the width and the distance.
C27_OutputsNeverStale ==
    (ui.built /\ ~ui.panicked /\ FocusedInputsParse(ui)) =>
        /\ ui.value["focused.fov_output"] = FocusedFovText(ui)
        /\ parse(ui.value["app_per_real_input"]).ok =>
             ui.value["portal_like.fov_output"] = AngleText(fov(ConfigurationShown(ui)))

\* The handlers that borrow the cell.
BorrowingHandlers ==
    { "width_or_height_change_handler", "diagonal_or_aspect_change_handler",
      "app_per_real_change_handler", "real_per_app_change_handler",
      "PortalLike::update", "Focused::update" }

\* How many times the handlers that borrow the cell have been entered.
BorrowingEntries(u) ==
    Cardinality({ i \in 1..Len(u.trace) : u.trace[i] \in BorrowingHandlers })

\* C28: the cell of the Ui is never borrowed twice at once and never read
\* while it holds None.  No event ends in a BorrowMutError or in an unwrap
\* of None; every handler that borrows the cell finds it free and holding
\* Some(ui), so the borrows of an event follow one another, one for each
\* such handler entered, and the last is released when the event ends;
\* Ui::new has stored Some(ui) before any handler runs; and the callback of
\* a unit selector does not borrow the cell.
C28_CellBorrowedOnceAndSome ==
    /\ ui.error \notin {"BorrowMutError", "unwrap on None"}
    /\ ~ui.borrowed
    /\ ui.trace # <<>> => ui.some
    /\ ui.built => (ui.some /\ ui.borrows = 1 + BorrowingEntries(ui))
    /\ call.op = "choice" => ui.borrows = call.before.borrows

\* C28 is exercised: the user changed the width with a height and a
\* distance in place; the handler, PortalLike::update and Focused::update
\* borrowed the cell one after the other, and the cell is free.
C28_ThreeBorrowsInOneEvent ==
    /\ call.op = "input"
    /\ call.widget = "width_input"
    /\ parse(ui.value["distance_input"]).ok
    /\ EnteredInEvent("width_or_height_change_handler") = 1
    /\ EnteredInEvent("PortalLike::update") = 1
    /\ EnteredInEvent("Focused::update") = 1
    /\ ui.borrows = call.before.borrows + 3
    /\ ~ui.borrowed
    /\ ~ui.panicked

\* C29 as stated: a listed ratio maps to itself under the rounding the
\* window uses.  For every listed n:d, find_common_aspect_ratio(n / d, 0.1)
\* returns [n, d], 5:4 included.
C29_ListedRatioFindsItself ==
    (call.op = "find_common_aspect_ratio" /\ call.rounding = FromRat(1, 10)) =>
        \A i \in 1..Len(ListedRatios) :
            call.ratio = Div(AsF64(ListedRatios[i][1]), AsF64(ListedRatios[i][2]))
                => ret = Some(ListedPair(i))

\* monitor_fov_for_distance has been called with a finite positive width,
\* viewing distance and reference distance.
FovForDistanceCalled(relative_to_monitor) ==
    /\ call.op = "monitor_fov_for_distance"
    /\ call.relative_to_monitor = relative_to_monitor
    /\ PositiveFinite(width_and_height(call.self.dimensions)[1])
    /\ PositiveFinite(call.self.distance)
    /\ PositiveFinite(call.distance)

\* (width / 2) * (1 / self.distance + 1 / distance)
TangentRelativeToMonitor ==
    Mul(Div(width_and_height(call.self.dimensions)[1], TWO),
        Add(Div(ONE, call.self.distance), Div(ONE, call.distance)))

\* The angle whose half has that tangent.
AngleRelativeToMonitor == Mul(Atan(TangentRelativeToMonitor), TWO)

\* Half the width over either distance, and the tangent their sum gives,
\* neither overflow nor underflow.
TangentsInRange ==
    /\ Normal(Div(Div(width_and_height(call.self.dimensions)[1], TWO),
                  call.self.distance))
    /\ Normal(Div(Div(width_and_height(call.self.dimensions)[1], TWO),
                  call.distance))
    /\ Normal(TangentRelativeToMonitor)

\* The half width monitor_fov_for_distance computes from fov() and the
\* reference distance does not underflow or overflow.
HalfWidthInRange ==
    \/ Tan(Div(fov(call.self), TWO)) = 0
    \/ Normal(Mul(Tan(Div(fov(call.self), TWO)), call.distance))

====
